---- MODULE Spec2Model ----
(***************************************************************************)
(* The presence and contact-list core of the messenger server:             *)
(* NotificationServer (src/core/notification.py) over the value types of   *)
(* src/core/models.py and the store facade of src/core/user.py.            *)
(*                                                                         *)
(* Python objects are modelled by identity where the code relies on it:    *)
(* a User is its uuid (UserService.get caches one instance per uuid), a    *)
(* UserDetail is a cell of `heap` named by a DetailId, so that two         *)
(* references are the same instance iff they hold the same id.             *)
(* Of a UserStatus only `substatus` is kept: name, message and media are   *)
(* copied by the same assignments and decide nothing here.                 *)
(*                                                                         *)
(* The handlers are read against the interface they were written for: a    *)
(* UserDetail with `contacts`, `groups` (id -> Group(id, name)) and        *)
(* `settings`, a Contact made of head, groups (a set of group ids), lists  *)
(* and status. AuthService is not part of these sources: its               *)
(* 'nb/login' tokens are a map from token to uuid, an entry made by        *)
(* create_token and taken out, once, by pop_token.                         *)
(* A handler that raises leaves the state as the statements before the     *)
(* raise made it. `sent` holds what the last call dispatched.              *)
(***************************************************************************)
EXTENDS Integers, Sequences, FiniteSets, TLC

\* ---------------------------------------------------------------- bounds
Users == {"a", "b"}                \* the users that have a row in the store
Uuids == Users \cup {"x"}          \* "x": a uuid with no row in the store
Sessions == {"s1", "s2", "s3"}     \* session objects of the front-ends
MaxPending == 1                    \* login tokens minted and not yet redeemed
MaxSync == 1                       \* ticks of the persistence pump in a run
MaxGroups == 2                     \* groups a client keeps at a time
MaxCalls == 1                      \* call tokens alive when a call is still made
MaxDirty == 102                    \* users of the large population that are dirty at a time
SubstatusIn == {"Online", "Invisible"}  \* substatus values clients set

\* ---------------------------------------------------------------- values
None == "None"
NoDetail == <<>>                   \* `detail = None` of a User
NoDir == [x \in {"NoDir"} |-> "None"] \* a recipient with no directory of messages yet
\* Names of UserDetail instances. After a call <<u, 1>> names the instance
\* attached to user u and <<u, 2>> another live instance of u's detail;
\* <<u, 3>> is free for an instance created during a call.
DetailIds == Users \X {1, 2, 3}
FL == "FL"
AL == "AL"
BL == "BL"
RL == "RL"
PL == "PL"
NoEvents == [s \in Sessions |-> <<>>]

VARIABLES
  db,           \* store: db[u] = the group rows (id -> name) and the contact
                \* rows (head uuid -> lists, group ids) of u
  settings,     \* User.settings['BLP'] of each user ("unset" when absent)
  user_status,  \* User.status.substatus: the true status of each user
  user_detail,  \* User.detail: a DetailId, or NoDetail
  heap,         \* the UserDetail instances alive:
                \* DetailId -> [uuid, groups, contacts, settings]
  user_by_uuid, \* NotificationServer._user_by_uuid (its keys)
  unsynced_db,  \* NotificationServer._unsynced_db: user -> DetailId
  ncs_by_user,  \* _NSSessCollection._ncs_by_user
  nc_by_token,  \* _NSSessCollection._nc_by_token
  sess_user,    \* Session.user
  sess_token,   \* Session.token
  auth_tokens,  \* AuthService: the 'nb/login' tokens alive, token -> uuid
  sent,         \* events the last call dispatched, per receiving session, in order
  n_sync,       \* pump ticks so far
  cal_tokens,   \* AuthService: the 'sb/cal' tokens alive, token -> payload
  pump_alive,   \* whether the task running _sync_db is still in its loop
  oim_files,    \* storage/oim: recipient uuid -> NoDir, or file name -> JSON content
  unsynced_keys, \* keys of _unsynced_db in insertion order, for a population of many users
  save_calls,   \* the batches the last pump tick handed to save_batch
  announced     \* the users that have called me_update with a substatus since they last came online

vars == <<db, settings, user_status, user_detail, heap, user_by_uuid, unsynced_db,
          ncs_by_user, nc_by_token, sess_user, sess_token, auth_tokens, sent, n_sync,
          cal_tokens, pump_alive, oim_files, unsynced_keys, save_calls, announced>>

\* ------------------------------------------------------------- dict helpers
Put(f, k, v) == [x \in DOMAIN f \cup {k} |-> IF x = k THEN v ELSE f[x]]
Del(f, k) == [x \in DOMAIN f \ {k} |-> f[x]]
Empty == [x \in {} |-> None]

\* The mutable objects a handler works on, threaded through its statements.
Mem == [heap |-> heap, user_detail |-> user_detail, unsynced_db |-> unsynced_db,
        user_by_uuid |-> user_by_uuid, user_status |-> user_status, sent |-> NoEvents]

\* A UserDetail nothing refers to any more is gone (reference counting); the
\* instances left are renamed, so that equal object graphs are equal states.
Collect(m) ==
  LET live == {m.user_detail[u] : u \in Users} \cup {m.unsynced_db[u] : u \in DOMAIN m.unsynced_db}
      name(r) == IF r = NoDetail THEN NoDetail
                 ELSE IF m.user_detail[r[1]] = r THEN <<r[1], 1>> ELSE <<r[1], 2>>
      old(n) == CHOOSE r \in (DOMAIN m.heap) \cap live : name(r) = n
  IN [m EXCEPT !.heap = [n \in {name(r) : r \in (DOMAIN m.heap) \cap live} |-> m.heap[old(n)]],
               !.user_detail = [u \in Users |-> name(m.user_detail[u])],
               !.unsynced_db = [u \in DOMAIN m.unsynced_db |-> name(m.unsynced_db[u])]]

\* ------------------------------------------------------------ UserService
\* UserService.get_detail: a new UserDetail built from the rows of the store;
\* every Contact starts with UserStatus(name, message), whose substatus is Offline.
get_detail(uuid) ==
  [uuid |-> uuid,
   groups |-> db[uuid].groups,
   contacts |-> [h \in DOMAIN db[uuid].contacts |->
                   [lists |-> db[uuid].contacts[h].lists,
                    groups |-> db[uuid].contacts[h].groups,
                    substatus |-> "Offline"]],
   settings |-> Empty]

\* ------------------------------------------------------------- models.py
\* Faulty variant of is_blocking: AL is looked at before BL.
is_blocking_al_first(m, blocker, blockee) ==
  LET contacts == m.heap[m.user_detail[blocker]].contacts
      lists == IF blockee \in DOMAIN contacts THEN contacts[blockee].lists ELSE {}
  IN IF AL \in lists THEN FALSE
     ELSE IF BL \in lists THEN TRUE
     ELSE (IF settings[blocker] = "unset" THEN "AL" ELSE settings[blocker]) = "BL"

\* _is_blocking(blocker, blockee); blocker.detail is asserted to be set.
is_blocking(m, blocker, blockee) ==
  LET contacts == m.heap[m.user_detail[blocker]].contacts
      lists == IF blockee \in DOMAIN contacts THEN contacts[blockee].lists ELSE {}
  IN IF BL \in lists THEN TRUE
     ELSE IF AL \in lists THEN FALSE
     ELSE (IF settings[blocker] = "unset" THEN "AL" ELSE settings[blocker]) = "BL"

\* Faulty variant of compute_visible_status: blocking is not looked at.
compute_visible_status_noblock(m, ctc, head, to_user) ==
  IF m.user_detail[head] = NoDetail
  THEN [ctc EXCEPT !.substatus = "Offline"]
  ELSE [ctc EXCEPT !.substatus = m.user_status[head]]

\* Contact.compute_visible_status: the contact `ctc` of owner `to_user`, head `head`.
compute_visible_status(m, ctc, head, to_user) ==
  IF m.user_detail[head] = NoDetail \/ is_blocking(m, head, to_user)
  THEN [ctc EXCEPT !.substatus = "Offline"]
  ELSE [ctc EXCEPT !.substatus = m.user_status[head]]

\* ------------------------------------------------------ NotificationServer
load_user_record(m, uuid) ==
  IF uuid \in m.user_by_uuid THEN m
  ELSE IF uuid \notin Users THEN m
  ELSE [m EXCEPT !.user_by_uuid = @ \cup {uuid}]

\* Faulty variant of _load_detail: a new instance from the store every time.
load_detail_reload(m, user) ==
  LET r == CHOOSE i \in DetailIds \ DOMAIN m.heap : i[1] = user
  IN [m |-> [m EXCEPT !.heap = Put(@, r, get_detail(user))], ref |-> r]

\* _load_detail: the user's detail when attached, else a new instance from the store.
load_detail(m, user) ==
  IF m.user_detail[user] # NoDetail
  THEN [m |-> m, ref |-> m.user_detail[user]]
  ELSE LET r == CHOOSE i \in DetailIds \ DOMAIN m.heap : i[1] = user
       IN [m |-> [m EXCEPT !.heap = Put(@, r, get_detail(user))], ref |-> r]

\* _mark_modified(user, detail = ref): `ref` is NoDetail when no detail is passed.
mark_modified(m, user, ref) ==
  LET ud == IF m.user_detail[user] # NoDetail THEN m.user_detail[user] ELSE ref
  IN [m EXCEPT !.unsynced_db = Put(@, user, ud)]

sync_contact_statuses(m) ==
  [m EXCEPT !.heap =
     [r \in DOMAIN m.heap |->
        LET user == m.heap[r].uuid
        IN IF user \in m.user_by_uuid /\ m.user_detail[user] = r
           THEN [m.heap[r] EXCEPT !.contacts =
                   [h \in DOMAIN m.heap[r].contacts |->
                      compute_visible_status(m, m.heap[r].contacts[h], h, user)]]
           ELSE m.heap[r]]]

\* _NSSessCollection.get_ncs over the registry `ncs`
get_ncs(ncs) == UNION {ncs[u] : u \in Users}

\* _generic_notify(sess): `ncs` and `suser` are the registry and Session.user at the call.
generic_notify(m, sess, ncs, suser) ==
  LET user == suser[sess]
      gets(o) == /\ o # sess
                 /\ m.user_detail[suser[o]] # NoDetail
                 /\ user \in DOMAIN m.heap[m.user_detail[suser[o]]].contacts
      ctc(o) == m.heap[m.user_detail[suser[o]]].contacts[user]
  IN IF user = None THEN m
     ELSE [m EXCEPT !.sent =
             [o \in Sessions |->
                IF o \in get_ncs(ncs) /\ gets(o)
                THEN Append(m.sent[o], [type |-> "PresenceNotification", user |-> user,
                                        substatus |-> ctc(o).substatus])
                ELSE m.sent[o]]]

add_to_list(m, user, ctc_head, lst) ==
  LET ld == load_detail(m, user)
      r == ld.ref
      contacts == ld.m.heap[r].contacts
      created == IF ctc_head \in DOMAIN contacts THEN contacts
                 ELSE Put(contacts, ctc_head,
                          [lists |-> {}, groups |-> {}, substatus |-> "Offline"])
      added == [created EXCEPT ![ctc_head].lists = @ \cup {lst}]
  IN mark_modified([ld.m EXCEPT !.heap[r].contacts = added], user, r)

remove_from_list(m, user, ctc_head, lst) ==
  LET ld == load_detail(m, user)
      r == ld.ref
      contacts == ld.m.heap[r].contacts
      masked == [contacts EXCEPT ![ctc_head].lists = @ \ {lst}]
      purged == IF masked[ctc_head].lists = {} THEN Del(masked, ctc_head) ELSE masked
  IN IF ctc_head \notin DOMAIN contacts THEN ld.m
     ELSE mark_modified([ld.m EXCEPT !.heap[r].contacts = purged], user, r)

notify_reverse_add(m, sess, user_added, ncs) ==
  [m EXCEPT !.sent =
     [o \in Sessions |->
        IF o \in ncs[user_added] /\ o # sess
        THEN Append(m.sent[o], [type |-> "AddedToList", user |-> sess_user[sess],
                                substatus |-> RL])
        ELSE m.sent[o]]]

\* The handler's objects written back.
Commit(m) ==
  LET c == Collect(m)
  IN /\ heap' = c.heap
     /\ user_detail' = c.user_detail
     /\ unsynced_db' = c.unsynced_db
     /\ user_by_uuid' = c.user_by_uuid
     /\ user_status' = c.user_status
     /\ sent' = c.sent

Registered(s) == s \in get_ncs(ncs_by_user)

\* ------------------------------------------------------------------ Init
\* What the database holds when the server starts: nothing, or "a" and "b" as
\* saved friends. User "a" has stored the privacy setting BLP = BL, "b" none.
EmptyDb == [u \in Users |-> [groups |-> Empty, contacts |-> Empty]]
FriendsDb ==
  [u \in Users |->
     [groups |-> Empty,
      contacts |-> Put(Empty, IF u = "a" THEN "b" ELSE "a", [lists |-> {FL, RL}, groups |-> {}])]]
InitWith(db0) ==
  /\ db = db0
  /\ settings = [u \in Users |-> IF u = "a" THEN "BL" ELSE "unset"]
  /\ user_status = [u \in Users |-> "Offline"]
  /\ user_detail = [u \in Users |-> NoDetail]
  /\ heap = Empty
  /\ user_by_uuid = {}
  /\ unsynced_db = Empty
  /\ ncs_by_user = [u \in Users |-> {}]
  /\ nc_by_token = Empty
  /\ sess_user = [s \in Sessions |-> None]
  /\ sess_token = [s \in Sessions |-> None]
  /\ auth_tokens = Empty
  /\ sent = NoEvents
  /\ n_sync = 0
  /\ cal_tokens = Empty
  /\ pump_alive = TRUE
  /\ oim_files = [u \in Users |-> NoDir]
  /\ unsynced_keys = <<>>
  /\ save_calls = <<>>
  /\ announced = {}
Init == \E db0 \in {EmptyDb, FriendsDb} : InitWith(db0)

\* --------------------------------------------------------------- actions
\* login_twn_start(email, password): `uuid` is what UserService.login returned.
\* `token` is the string create_token makes up: one nothing refers to.
login_twn_start(uuid, token) ==
  LET used == DOMAIN auth_tokens \cup DOMAIN nc_by_token
  IN /\ IF uuid = None
        THEN /\ auth_tokens' = auth_tokens
        ELSE /\ token \notin used
             /\ Cardinality(DOMAIN auth_tokens) < MaxPending
             /\ auth_tokens' = Put(auth_tokens, token, uuid)
     /\ sent' = NoEvents
     /\ UNCHANGED <<db, settings, user_status, user_detail, heap, user_by_uuid,
                    unsynced_db, ncs_by_user, nc_by_token, sess_user, sess_token>>

\* _login_common(sess, uuid, email, token) with uuid # None
login_common(sess, uuid, token) ==
  LET m1 == load_user_record(Mem, uuid)
      ld == load_detail(m1, uuid)
      m2 == [ld.m EXCEPT !.user_detail[uuid] = ld.ref]
  IN /\ sess_user' = [sess_user EXCEPT ![sess] = uuid]
     /\ sess_token' = [sess_token EXCEPT ![sess] = token]
     /\ ncs_by_user' = [ncs_by_user EXCEPT ![uuid] = @ \cup {sess}]
     /\ nc_by_token' = Put(nc_by_token, token, sess)
     /\ Commit(m2)

\* AuthService, 'nb/login' tokens: get_token looks a token up, pop_token also
\* forgets it; both give None for a token that is not there.
get_token(token) == IF token \in DOMAIN auth_tokens THEN auth_tokens[token] ELSE None
pop_token(token) == [ret |-> get_token(token), tokens |-> Del(auth_tokens, token)]
\* A token past its lifetime is no longer there.
token_expires(token) ==
  /\ token \in DOMAIN auth_tokens
  /\ auth_tokens' = Del(auth_tokens, token)
  /\ UNCHANGED <<db, settings, user_status, user_detail, heap, user_by_uuid, unsynced_db,
                 ncs_by_user, nc_by_token, sess_user, sess_token, sent>>

\* What login_twn_start and login_twn_verify return.
login_twn_start_ret(uuid, token) == IF uuid = None THEN None ELSE token
login_twn_verify_ret(token) == get_token(token)

\* Faulty variant of login_twn_verify: the token is looked up and kept.
login_twn_verify_get_token(sess, token) ==
  LET uuid == get_token(token)
  IN /\ auth_tokens' = auth_tokens
     /\ IF uuid = None
        THEN /\ sent' = NoEvents
             /\ UNCHANGED <<user_status, user_detail, heap, user_by_uuid, unsynced_db,
                            ncs_by_user, nc_by_token, sess_user, sess_token>>
        ELSE login_common(sess, uuid, token)
     /\ UNCHANGED <<db, settings>>

\* Faulty variant of login_twn_verify: the session keeps the token it presented
\* even when the token is not redeemed.
login_twn_verify_keeps_token(sess, token) ==
  LET popped == pop_token(token)
      uuid == popped.ret
  IN /\ auth_tokens' = popped.tokens
     /\ IF uuid = None
        THEN /\ sent' = NoEvents
             /\ sess_token' = [sess_token EXCEPT ![sess] = token]
             /\ UNCHANGED <<user_status, user_detail, heap, user_by_uuid, unsynced_db,
                            ncs_by_user, nc_by_token, sess_user>>
        ELSE login_common(sess, uuid, token)
     /\ UNCHANGED <<db, settings>>

\* login_twn_verify(sess, email, token)
login_twn_verify(sess, token) ==
  LET popped == pop_token(token)
      uuid == popped.ret
  IN /\ auth_tokens' = popped.tokens
     /\ IF uuid = None
        THEN /\ sent' = NoEvents
             /\ UNCHANGED <<user_status, user_detail, heap, user_by_uuid, unsynced_db,
                            ncs_by_user, nc_by_token, sess_user, sess_token>>
        ELSE login_common(sess, uuid, token)
     /\ UNCHANGED <<db, settings>>

\* Faulty variant of on_connection_lost: no early return while other sessions
\* of the user remain.
on_connection_lost_always(sess) ==
  LET user == sess_user[sess]
      ncs == [ncs_by_user EXCEPT ![user] = @ \ {sess}]
      m1 == [Mem EXCEPT !.user_detail[user] = NoDetail]
      m2 == sync_contact_statuses(m1)
      m3 == generic_notify(m2, sess, ncs, sess_user)
  IN /\ IF user = None
        THEN /\ Commit(Mem)
             /\ UNCHANGED <<ncs_by_user, nc_by_token>>
        ELSE /\ ncs_by_user' = ncs
             /\ nc_by_token' = Del(nc_by_token, sess_token[sess])
             /\ Commit(m3)
     /\ UNCHANGED <<db, settings, auth_tokens, sess_user, sess_token>>

\* Faulty variant of on_connection_lost: the contact statuses are not recomputed
\* before the fan-out.
on_connection_lost_nosync(sess) ==
  LET user == sess_user[sess]
      ncs == [ncs_by_user EXCEPT ![user] = @ \ {sess}]
      m1 == [Mem EXCEPT !.user_detail[user] = NoDetail]
      m3 == generic_notify(m1, sess, ncs, sess_user)
  IN /\ IF user = None
        THEN /\ Commit(Mem)
             /\ UNCHANGED <<ncs_by_user, nc_by_token>>
        ELSE /\ ncs_by_user' = ncs
             /\ nc_by_token' = Del(nc_by_token, sess_token[sess])
             /\ IF ncs[user] # {}
                THEN Commit(Mem)
                ELSE Commit(m3)
     /\ UNCHANGED <<db, settings, auth_tokens, sess_user, sess_token>>

\* on_connection_lost(sess)
on_connection_lost(sess) ==
  LET user == sess_user[sess]
      ncs == [ncs_by_user EXCEPT ![user] = @ \ {sess}]
      m1 == [Mem EXCEPT !.user_detail[user] = NoDetail]
      m2 == sync_contact_statuses(m1)
      m3 == generic_notify(m2, sess, ncs, sess_user)
  IN /\ IF user = None
        THEN /\ Commit(Mem)
             /\ UNCHANGED <<ncs_by_user, nc_by_token>>
        ELSE /\ ncs_by_user' = ncs
             /\ nc_by_token' = Del(nc_by_token, sess_token[sess])
             /\ IF ncs[user] # {}
                THEN Commit(Mem)
                ELSE Commit(m3)
     /\ UNCHANGED <<db, settings, auth_tokens, sess_user, sess_token>>

\* Faulty variant of me_update: the fan-out is not preceded by the recomputation.
me_update_nosync(sess, fields) ==
  LET user == sess_user[sess]
      r == user_detail[user]
      m1 == IF "blp" \in DOMAIN fields
            THEN [Mem EXCEPT !.heap[r].settings = Put(@, "blp", fields["blp"])]
            ELSE Mem
      m2 == IF "substatus" \in DOMAIN fields
            THEN [m1 EXCEPT !.user_status[user] = fields["substatus"]]
            ELSE m1
      m3 == mark_modified(m2, user, NoDetail)
      m5 == generic_notify(m3, sess, ncs_by_user, sess_user)
  IN /\ Commit(m5)
     /\ UNCHANGED <<db, settings, ncs_by_user, nc_by_token, sess_user, sess_token,
                    auth_tokens>>

\* me_update(sess, fields): `fields` is a dict over the keys 'substatus' and 'blp'.
me_update(sess, fields) ==
  LET user == sess_user[sess]
      r == user_detail[user]
      m1 == IF "blp" \in DOMAIN fields
            THEN [Mem EXCEPT !.heap[r].settings = Put(@, "blp", fields["blp"])]
            ELSE Mem
      m2 == IF "substatus" \in DOMAIN fields
            THEN [m1 EXCEPT !.user_status[user] = fields["substatus"]]
            ELSE m1
      m3 == mark_modified(m2, user, NoDetail)
      m4 == sync_contact_statuses(m3)
      m5 == generic_notify(m4, sess, ncs_by_user, sess_user)
  IN /\ Commit(m5)
     /\ UNCHANGED <<db, settings, ncs_by_user, nc_by_token, sess_user, sess_token,
                    auth_tokens>>

\* A handler that may raise is an operator giving the memory it leaves, the
\* error it raises (None when it returns) and the value it returns; the action
\* commits the memory.
Raised(m, e) == [m |-> m, err |-> e, ret |-> None]
Returned(m, v) == [m |-> m, err |-> None, ret |-> v]

\* Faulty variant of me_contact_add: the reverse-add notice is sent last.
me_contact_add_notify_last(sess, contact_uuid, lst) ==
  LET user == sess_user[sess]
      m1 == load_user_record(Mem, contact_uuid)
      m2 == add_to_list(m1, user, contact_uuid, lst)
      m3 == IF lst = FL THEN add_to_list(m2, contact_uuid, user, RL) ELSE m2
      m4 == sync_contact_statuses(m3)
      m5 == generic_notify(m4, sess, ncs_by_user, sess_user)
      m6 == IF lst = FL THEN notify_reverse_add(m5, sess, contact_uuid, ncs_by_user) ELSE m5
  IN /\ IF contact_uuid \notin Users
        THEN Commit(m1)
        ELSE Commit(m6)
     /\ UNCHANGED <<db, settings, ncs_by_user, nc_by_token, sess_user, sess_token,
                    auth_tokens>>

\* A variant of me_contact_add that leaves the contact statuses as they were.
me_contact_add_do_nosync(sess, contact_uuid, lst, loads) ==
  LET user == sess_user[sess]
      m1 == load_user_record(Mem, contact_uuid)
      m2 == add_to_list(m1, user, contact_uuid, lst)
      m3 == IF lst = FL
            THEN notify_reverse_add(add_to_list(m2, contact_uuid, user, RL),
                                    sess, contact_uuid, ncs_by_user)
            ELSE m2
      m5 == generic_notify(m3, sess, ncs_by_user, sess_user)
  IN IF contact_uuid \notin Users THEN Raised(m1, "UserDoesNotExist")
     ELSE IF lst = FL /\ m2.user_detail[contact_uuid] = NoDetail /\ ~loads
     THEN Raised(m2, "Exception")
     ELSE Returned(m5, contact_uuid)

\* me_contact_add(sess, contact_uuid, lst, name). `loads` is whether
\* UserService.get_detail returns a detail when _load_detail asks the store
\* for the contact's side; if it does not, the exception leaves the handler
\* at that statement.
me_contact_add_do(sess, contact_uuid, lst, loads) ==
  LET user == sess_user[sess]
      m1 == load_user_record(Mem, contact_uuid)
      m2 == add_to_list(m1, user, contact_uuid, lst)
      m3 == IF lst = FL
            THEN notify_reverse_add(add_to_list(m2, contact_uuid, user, RL),
                                    sess, contact_uuid, ncs_by_user)
            ELSE m2
      m4 == sync_contact_statuses(m3)
      m5 == generic_notify(m4, sess, ncs_by_user, sess_user)
  IN IF contact_uuid \notin Users THEN Raised(m1, "UserDoesNotExist")
     ELSE IF lst = FL /\ m2.user_detail[contact_uuid] = NoDetail /\ ~loads
     THEN Raised(m2, "Exception")
     ELSE Returned(m5, contact_uuid)

me_contact_add(sess, contact_uuid, lst) ==
  /\ Commit(me_contact_add_do(sess, contact_uuid, lst, TRUE).m)
  /\ UNCHANGED <<db, settings, ncs_by_user, nc_by_token, sess_user, sess_token,
                 auth_tokens>>

\* me_contact_add while the store does not answer.
me_contact_add_store_down(sess, contact_uuid, lst) ==
  /\ Commit(me_contact_add_do(sess, contact_uuid, lst, FALSE).m)
  /\ UNCHANGED <<db, settings, ncs_by_user, nc_by_token, sess_user, sess_token,
                 auth_tokens>>

\* me_contact_edit: an argument that is None leaves its attribute alone.
me_contact_edit_do(sess, contact_uuid, is_messenger_user, is_favorite) ==
  LET user == sess_user[sess]
      r == user_detail[user]
      ctc == heap[r].contacts[contact_uuid]
      c1 == IF is_messenger_user # None
            THEN Put(ctc, "is_messenger_user", is_messenger_user) ELSE ctc
      c2 == IF is_favorite # None THEN Put(c1, "is_favorite", is_favorite) ELSE c1
      m1 == [Mem EXCEPT !.heap[r].contacts[contact_uuid] = c2]
  IN IF contact_uuid \notin DOMAIN heap[r].contacts
     THEN Raised(Mem, "ContactDoesNotExist")
     ELSE Returned(mark_modified(m1, user, NoDetail), None)

me_contact_edit(sess, contact_uuid, is_messenger_user, is_favorite) ==
  /\ Commit(me_contact_edit_do(sess, contact_uuid, is_messenger_user, is_favorite).m)
  /\ UNCHANGED <<db, settings, ncs_by_user, nc_by_token, sess_user, sess_token,
                 auth_tokens>>

\* A removal that marks the user modified before it looks the contact up.
me_contact_remove_mark_first(sess, contact_uuid, lst) ==
  LET user == sess_user[sess]
      r == user_detail[user]
      m0 == mark_modified(Mem, user, NoDetail)
      m1 == IF lst = FL
            THEN remove_from_list(remove_from_list(m0, user, contact_uuid, FL),
                                  contact_uuid, user, RL)
            ELSE [m0 EXCEPT !.heap[r].contacts[contact_uuid].lists = @ \ {lst}]
  IN IF contact_uuid \notin DOMAIN heap[r].contacts
     THEN Raised(m0, "ContactDoesNotExist")
     ELSE Returned(sync_contact_statuses(m1), None)

me_contact_remove_do(sess, contact_uuid, lst) ==
  LET user == sess_user[sess]
      r == user_detail[user]
      m1 == IF lst = FL
            THEN remove_from_list(remove_from_list(Mem, user, contact_uuid, FL),
                                  contact_uuid, user, RL)
            ELSE [Mem EXCEPT !.heap[r].contacts[contact_uuid].lists = @ \ {lst}]
      m2 == mark_modified(m1, user, NoDetail)
      m3 == sync_contact_statuses(m2)
  IN IF contact_uuid \notin DOMAIN heap[r].contacts
     THEN Raised(Mem, "ContactDoesNotExist")
     ELSE Returned(m3, None)

me_contact_remove(sess, contact_uuid, lst) ==
  /\ lst # RL
  /\ Commit(me_contact_remove_do(sess, contact_uuid, lst).m)
  /\ UNCHANGED <<db, settings, ncs_by_user, nc_by_token, sess_user, sess_token,
                 auth_tokens>>

\* ---------------------------------------------------------------- groups
\* A group name is the sequence of its characters.
MAX_GROUP_NAME_LENGTH == 61
Friends == <<"F", "r", "i", "e", "n", "d", "s">>
NoGroupName == <<"(", "N", "o", " ", "G", "r", "o", "u", "p", ")">>
NameOfLen(n) == [i \in 1..n |-> "x"]

\* str(id) for a non-negative int: its decimal digits.
Digits == <<"0", "1", "2", "3", "4", "5", "6", "7", "8", "9">>
RECURSIVE str(_)
str(id) == IF id < 10 THEN Digits[id + 1] ELSE str(id \div 10) \o Digits[(id % 10) + 1]

\* The id the number of groups suggests.
gen_group_id_count(detail) == str(Cardinality(DOMAIN detail.groups) + 1)

\* _gen_group_id: count up from 1 until str(id) is not a key of detail.groups.
RECURSIVE gen_group_id_from(_, _)
gen_group_id_from(detail, id) ==
  IF str(id) \in DOMAIN detail.groups THEN gen_group_id_from(detail, id + 1) ELSE str(id)
gen_group_id(detail) == gen_group_id_from(detail, 1)

me_group_add_do(sess, name) ==
  LET user == sess_user[sess]
      r == user_detail[user]
      id == gen_group_id(heap[r])
      m1 == [Mem EXCEPT !.heap[r].groups = Put(@, id, name)]
  IN IF Len(name) > MAX_GROUP_NAME_LENGTH
     THEN Raised(Mem, "GroupNameTooLong")
     ELSE Returned(mark_modified(m1, user, NoDetail), id)

me_group_add(sess, name) ==
  /\ Commit(me_group_add_do(sess, name).m)
  /\ UNCHANGED <<db, settings, ncs_by_user, nc_by_token, sess_user, sess_token,
                 auth_tokens>>

\* A removal that leaves the contacts as they are.
me_group_remove_noscrub(sess, group_id) ==
  LET user == sess_user[sess]
      r == user_detail[user]
      m1 == [Mem EXCEPT !.heap[r].groups = Del(@, group_id)]
  IN IF group_id = "0" THEN Raised(Mem, "CannotRemoveSpecialGroup")
     ELSE IF group_id \notin DOMAIN heap[r].groups THEN Raised(Mem, "GroupDoesNotExist")
     ELSE Returned(mark_modified(m1, user, NoDetail), None)

me_group_remove_do(sess, group_id) ==
  LET user == sess_user[sess]
      r == user_detail[user]
      m1 == [Mem EXCEPT !.heap[r].groups = Del(@, group_id)]
      m2 == [m1 EXCEPT !.heap[r].contacts =
               [h \in DOMAIN @ |-> [@[h] EXCEPT !.groups = @ \ {group_id}]]]
  IN IF group_id = "0" THEN Raised(Mem, "CannotRemoveSpecialGroup")
     ELSE IF group_id \notin DOMAIN heap[r].groups THEN Raised(Mem, "GroupDoesNotExist")
     ELSE Returned(mark_modified(m2, user, NoDetail), None)

me_group_remove(sess, group_id) ==
  /\ Commit(me_group_remove_do(sess, group_id).m)
  /\ UNCHANGED <<db, settings, ncs_by_user, nc_by_token, sess_user, sess_token,
                 auth_tokens>>

\* me_group_edit: past the lookup, `name` is a name the function never binds.
me_group_edit_do(sess, group_id, new_name) ==
  LET user == sess_user[sess]
      r == user_detail[user]
  IN IF group_id \notin DOMAIN heap[r].groups THEN Raised(Mem, "GroupDoesNotExist")
     ELSE Raised(Mem, "NameError")

me_group_edit(sess, group_id, new_name) ==
  /\ Commit(me_group_edit_do(sess, group_id, new_name).m)
  /\ UNCHANGED <<db, settings, ncs_by_user, nc_by_token, sess_user, sess_token,
                 auth_tokens>>

me_group_contact_add_do(sess, group_id, contact_uuid) ==
  LET user == sess_user[sess]
      r == user_detail[user]
      m1 == [Mem EXCEPT !.heap[r].contacts[contact_uuid].groups = @ \cup {group_id}]
  IN IF group_id = "0" THEN Returned(Mem, None)
     ELSE IF group_id \notin DOMAIN heap[r].groups THEN Raised(Mem, "GroupDoesNotExist")
     ELSE IF contact_uuid \notin DOMAIN heap[r].contacts
     THEN Raised(Mem, "ContactDoesNotExist")
     ELSE IF group_id \in heap[r].contacts[contact_uuid].groups
     THEN Raised(Mem, "ContactAlreadyOnList")
     ELSE Returned(mark_modified(m1, user, NoDetail), None)

me_group_contact_add(sess, group_id, contact_uuid) ==
  /\ Commit(me_group_contact_add_do(sess, group_id, contact_uuid).m)
  /\ UNCHANGED <<db, settings, ncs_by_user, nc_by_token, sess_user, sess_token,
                 auth_tokens>>

\* set.remove raises KeyError, which the handler turns into ContactNotOnList
\* for the group id "0" only.
me_group_contact_remove_do(sess, group_id, contact_uuid) ==
  LET user == sess_user[sess]
      r == user_detail[user]
      m1 == [Mem EXCEPT !.heap[r].contacts[contact_uuid].groups = @ \ {group_id}]
  IN IF contact_uuid \notin DOMAIN heap[r].contacts
     THEN Raised(Mem, "ContactDoesNotExist")
     ELSE IF group_id \notin DOMAIN heap[r].groups /\ group_id # "0"
     THEN Raised(Mem, "GroupDoesNotExist")
     ELSE IF group_id \notin heap[r].contacts[contact_uuid].groups /\ group_id = "0"
     THEN Raised(Mem, "ContactNotOnList")
     ELSE Returned(mark_modified(m1, user, NoDetail), None)

me_group_contact_remove(sess, group_id, contact_uuid) ==
  /\ Commit(me_group_contact_remove_do(sess, group_id, contact_uuid).m)
  /\ UNCHANGED <<db, settings, ncs_by_user, nc_by_token, sess_user, sess_token,
                 auth_tokens>>

\* ----------------------------------------------------------- switchboard
\* UserService.get_uuid: the uuid of the row with that email, or None.
EmailOf == [u \in Users |-> u \o "@x"]
get_uuid(email) ==
  IF \E u \in Users : EmailOf[u] = email
  THEN CHOOSE u \in Users : EmailOf[u] = email
  ELSE None
\* Substatus.is_offlineish
is_offlineish(substatus) == substatus = "Offline" \/ substatus = "Invisible"
sb_address == [host |-> "m1.escargot.log1p.xyz", port |-> 1864]
InvitedToChat(address, chatid, token, caller) ==
  [type |-> "InvitedToChat", sb_address |-> address, chatid |-> chatid, token |-> token,
   caller |-> caller]
\* AuthService.create_token: a token string that names no token alive.
RECURSIVE create_token_from(_, _)
create_token_from(tokens, i) ==
  IF ("k" \o str(i)) \in DOMAIN tokens THEN create_token_from(tokens, i + 1) ELSE "k" \o str(i)
create_token(tokens) == create_token_from(tokens, 1)

\* A loop that mints one token before it starts and hands it to every session.
invite_all_one_token(st, order, callee, chatid, caller) ==
  LET token == create_token(st.tokens)
  IN [tokens |-> IF order = <<>> THEN st.tokens
                 ELSE Put(st.tokens, token, [uuid |-> callee, extra_data |-> Head(order)]),
      m |-> [st.m EXCEPT !.sent =
               [o \in Sessions |->
                  IF \E i \in DOMAIN order : order[i] = o
                  THEN Append(st.m.sent[o], InvitedToChat(sb_address, chatid, token, caller))
                  ELSE st.m.sent[o]]]]

\* The loop of notify_call over the callee's sessions, in the order `order`.
RECURSIVE invite_all(_, _, _, _, _)
invite_all(st, order, callee, chatid, caller) ==
  IF order = <<>> THEN st
  ELSE LET ctc_nc == Head(order)
           token == create_token(st.tokens)
       IN invite_all(
            [tokens |-> Put(st.tokens, token, [uuid |-> callee, extra_data |-> ctc_nc]),
             m |-> [st.m EXCEPT !.sent[ctc_nc] =
                      Append(@, InvitedToChat(sb_address, chatid, token, caller))]],
            Tail(order), callee, chatid, caller)

\* A call that invites the callee's sessions without looking at the status.
notify_call_any_status(caller_uuid, callee_email, chatid, order) ==
  LET callee_uuid == get_uuid(callee_email)
      detail == heap[user_detail[caller_uuid]]
      failed(e) == [m |-> Mem, err |-> e, tokens |-> cal_tokens]
      done == invite_all([tokens |-> cal_tokens, m |-> Mem], order, callee_uuid, chatid,
                         caller_uuid)
  IN IF caller_uuid \notin user_by_uuid THEN failed("ServerError")
     ELSE IF user_detail[caller_uuid] = NoDetail THEN failed("ServerError")
     ELSE IF callee_uuid = None THEN failed("UserDoesNotExist")
     ELSE IF callee_uuid \notin DOMAIN detail.contacts THEN failed("ContactDoesNotExist")
     ELSE IF ncs_by_user[callee_uuid] = {} THEN failed("ContactNotOnline")
     ELSE [m |-> done.m, err |-> None, tokens |-> done.tokens]

\* notify_call(caller_uuid, callee_email, chatid): `order` is the order in
\* which the set of the callee's sessions is iterated.
notify_call_do(caller_uuid, callee_email, chatid, order) ==
  LET callee_uuid == get_uuid(callee_email)
      detail == heap[user_detail[caller_uuid]]
      failed(e) == [m |-> Mem, err |-> e, tokens |-> cal_tokens]
      done == invite_all([tokens |-> cal_tokens, m |-> Mem], order, callee_uuid, chatid,
                         caller_uuid)
  IN IF caller_uuid \notin user_by_uuid THEN failed("ServerError")
     ELSE IF user_detail[caller_uuid] = NoDetail THEN failed("ServerError")
     ELSE IF callee_uuid = None THEN failed("UserDoesNotExist")
     ELSE IF callee_uuid \notin DOMAIN detail.contacts THEN failed("ContactDoesNotExist")
     ELSE IF is_offlineish(detail.contacts[callee_uuid].substatus)
     THEN failed("ContactNotOnline")
     ELSE IF ncs_by_user[callee_uuid] = {} THEN failed("ContactNotOnline")
     ELSE [m |-> done.m, err |-> None, tokens |-> done.tokens]

notify_call(caller_uuid, callee_email, chatid, order) ==
  LET res == notify_call_do(caller_uuid, callee_email, chatid, order)
  IN /\ Commit(res.m)
     /\ cal_tokens' = res.tokens
     /\ UNCHANGED <<db, settings, ncs_by_user, nc_by_token, sess_user, sess_token,
                    auth_tokens>>

\* on_connection_lost(sess) as a step inside another call, on the registry and
\* the memory `st` of that call.
on_connection_lost_in(st, sess) ==
  LET user == sess_user[sess]
      ncs == [st.ncs EXCEPT ![user] = @ \ {sess}]
      m1 == [st.m EXCEPT !.user_detail[user] = NoDetail]
      m2 == sync_contact_statuses(m1)
      m3 == generic_notify(m2, sess, ncs, sess_user)
  IN IF user = None THEN st
     ELSE [st EXCEPT !.ncs = ncs,
                     !.byt = Del(@, sess_token[sess]),
                     !.m = IF ncs[user] # {} THEN st.m ELSE m3]
\* A loop of notify_call that walks a copy of the set taken before the loop.
RECURSIVE invite_snapshot(_, _, _, _, _, _, _)
invite_snapshot(st, order, used, callee, chatid, caller, closing) ==
  IF order = <<>> THEN st
  ELSE LET ctc_nc == Head(order)
           token == create_token(st.tokens)
           minted == [st EXCEPT !.tokens =
                        Put(@, token, [uuid |-> callee, extra_data |-> ctc_nc])]
           after == IF ctc_nc \in closing
                    THEN on_connection_lost_in(minted, ctc_nc)
                    ELSE [minted EXCEPT !.m.sent[ctc_nc] =
                            Append(@, InvitedToChat(sb_address, chatid, token, caller))]
       IN invite_snapshot(after, Tail(order), used, callee, chatid, caller, closing)
\* The loop of notify_call over ctc_ncs, the set of the callee's sessions that
\* the registry holds (get_ncs_by_user returns the set itself), when send_event
\* to a session of `closing` closes that session, which reports
\* on_connection_lost before send_event returns. `used` is the size of the set
\* when the loop started: the iterator of a set raises RuntimeError at its next
\* step once the size of the set differs.
RECURSIVE invite_live(_, _, _, _, _, _, _)
invite_live(st, order, used, callee, chatid, caller, closing) ==
  IF Cardinality(st.ncs[callee]) # used THEN [st EXCEPT !.err = "RuntimeError"]
  ELSE IF order = <<>> THEN st
  ELSE LET ctc_nc == Head(order)
           token == create_token(st.tokens)
           minted == [st EXCEPT !.tokens =
                        Put(@, token, [uuid |-> callee, extra_data |-> ctc_nc])]
           after == IF ctc_nc \in closing
                    THEN on_connection_lost_in(minted, ctc_nc)
                    ELSE [minted EXCEPT !.m.sent[ctc_nc] =
                            Append(@, InvitedToChat(sb_address, chatid, token, caller))]
       IN invite_live(after, Tail(order), used, callee, chatid, caller, closing)
\* notify_call with sessions that close when they are sent to.
notify_call_live_do(caller_uuid, callee_email, chatid, order, closing) ==
  LET callee_uuid == get_uuid(callee_email)
      checks == notify_call_do(caller_uuid, callee_email, chatid, <<>>)
      st == [tokens |-> cal_tokens, m |-> Mem, ncs |-> ncs_by_user, byt |-> nc_by_token,
             err |-> None]
  IN IF checks.err # None THEN [st EXCEPT !.err = checks.err]
     ELSE invite_live(st, order, Cardinality(ncs_by_user[callee_uuid]), callee_uuid,
                      chatid, caller_uuid, closing)
notify_call_live(caller_uuid, callee_email, chatid, order, closing) ==
  LET res == notify_call_live_do(caller_uuid, callee_email, chatid, order, closing)
  IN /\ Commit(res.m)
     /\ cal_tokens' = res.tokens
     /\ ncs_by_user' = res.ncs
     /\ nc_by_token' = res.byt
     /\ UNCHANGED <<db, settings, sess_user, sess_token, auth_tokens>>

\* UserService.save_batch on the group and contact rows, when it returns: rows
\* no longer in the detail are deleted, the others are written from the detail.
save_batch(batch) ==
  [u \in Users |->
     IF u \in DOMAIN batch
     THEN [groups |-> heap[batch[u]].groups,
           contacts |-> [h \in DOMAIN heap[batch[u]].contacts |->
                           [lists |-> heap[batch[u]].contacts[h].lists,
                            groups |-> heap[batch[u]].contacts[h].groups]]]
     ELSE db[u]]

\* Variant of User.__init__ in which `self.id = id` is there.
User_with_id(id, uuid) == [id |-> id, uuid |-> uuid]
\* User.__init__ (models.py): the slots a new User has a value in. `id` is a
\* slot and a parameter of __init__, and __init__ does not assign it.
User(id, uuid) == [uuid |-> uuid]
\* UserService._get_uncached: the User made from the row of uuid, whose id
\* column is written "#" followed by the uuid here.
get_uncached(uuid) == IF uuid \in Users THEN User("#" \o uuid, uuid) ELSE None
\* Reading obj.name raises AttributeError unless the slot has a value.
hasattr(obj, name) == name \in DOMAIN obj
\* The columns of a group row (the store's schema is documented, not in src/).
DBUserGroup_columns == {"user_id", "group_id", "group_uuid", "name", "is_favorite", "date_modified"}
\* The rows of one user after the deletes and upserts of save_batch.
rows_of(detail) ==
  [groups |-> detail.groups,
   contacts |-> [h \in DOMAIN detail.contacts |->
                   [lists |-> detail.contacts[h].lists,
                    groups |-> detail.contacts[h].groups]]]
\* UserService.save_batch(to_save) on the rows `store`, as user.py has it: the
\* store after the call and the exception that left it, if any. The user row
\* is read, then `user.id` is read to query the group rows; a group that has
\* no row yet is constructed with the keyword user_uuid. The batch is one
\* transaction: an exception leaves the rows as they were.
save_batch_do(store, to_save) ==
  LET details == [u \in DOMAIN to_save |-> heap[to_save[u]]]
      no_id == {u \in DOMAIN to_save : ~hasattr(get_uncached(u), "id")}
      new_group == {u \in DOMAIN to_save :
                      DOMAIN details[u].groups \ DOMAIN store[u].groups # {}}
  IN IF no_id # {}
     THEN [db |-> store, err |-> "AttributeError"]
     ELSE IF new_group # {} /\ "user_uuid" \notin DBUserGroup_columns
     THEN [db |-> store, err |-> "TypeError"]
     ELSE [db |-> [u \in Users |-> IF u \in DOMAIN to_save THEN rows_of(details[u])
                                                          ELSE store[u]],
           err |-> None]

\* Faulty variant of _sync_db_impl: no try/except, so an exception of
\* save_batch leaves the loop of _sync_db.
sync_db_impl_uncaught(saved) ==
  /\ unsynced_db # Empty
  /\ db' = IF saved THEN save_batch(unsynced_db) ELSE db
  /\ Commit([Mem EXCEPT !.unsynced_db = Empty])
  /\ pump_alive' = saved
  /\ UNCHANGED <<settings, ncs_by_user, nc_by_token, sess_user, sess_token, auth_tokens>>

\* Faulty variant of _sync_db_impl: the entries are read and left in place.
sync_db_impl_no_pop(saved) ==
  /\ unsynced_db # Empty
  /\ db' = IF saved THEN save_batch(unsynced_db) ELSE db
  /\ Commit(Mem)
  /\ pump_alive' = pump_alive
  /\ UNCHANGED <<settings, ncs_by_user, nc_by_token, sess_user, sess_token, auth_tokens>>

\* _sync_db_impl: one tick of the pump; `saved` is whether save_batch returned
\* (the store may raise, which the tick catches after the entries were popped).
sync_db_impl(saved) ==
  /\ unsynced_db # Empty
  /\ db' = IF saved THEN save_batch(unsynced_db) ELSE db
  /\ Commit([Mem EXCEPT !.unsynced_db = Empty])
  /\ pump_alive' = pump_alive
  /\ UNCHANGED <<settings, ncs_by_user, nc_by_token, sess_user, sess_token, auth_tokens>>

\* ------------------------------------------------- the pump, many users
\* _unsynced_db of a server with many users, as the dict it is: its keys in
\* insertion order (unsynced_keys); the value of a key is that user's detail.
SYNC_BATCH == 100
\* self._unsynced_db[user] = ud: a key that is there keeps its place.
mark_key(keys, user) ==
  IF \E i \in DOMAIN keys : keys[i] = user THEN keys ELSE Append(keys, user)
\* list(d.keys())[:n]
first_keys(keys, n) == SubSeq(keys, 1, IF Len(keys) < n THEN Len(keys) ELSE n)
\* The keys left after d.pop(user, None) for each user of `users`.
RECURSIVE pop_keys(_, _)
pop_keys(keys, users) ==
  IF keys = <<>> THEN <<>>
  ELSE IF \E i \in DOMAIN users : users[i] = Head(keys)
       THEN pop_keys(Tail(keys), users)
       ELSE <<Head(keys)>> \o pop_keys(Tail(keys), users)
\* Faulty variant of the tick: every key is taken, with no limit.
sync_db_impl_all(keys) ==
  IF keys = <<>> THEN [keys |-> keys, calls |-> <<>>]
  ELSE [keys |-> <<>>, calls |-> <<keys>>]
\* _sync_db_impl on the keys: the keys left and the save_batch calls made. The
\* details are never None or falsy, so every popped key is in the batch.
sync_db_impl_keys(keys) ==
  IF keys = <<>> THEN [keys |-> keys, calls |-> <<>>]
  ELSE LET users == first_keys(keys, SYNC_BATCH)
       IN [keys |-> pop_keys(keys, users), calls |-> <<users>>]

\* ---------------------------------------------------------------- OIM files
\* storage/oim/<recipient_uuid>/<oim_uuid>: one directory per recipient, made by
\* the first save_oim, and one JSON file per message.
OimIds == {"o1", "o2"}              \* the names misc.gen_uuid gives to messages
\* Path.is_file of _get_oim_path(recipient_uuid) / uuid.
is_file(files, recipient_uuid, uuid) ==
  /\ files[recipient_uuid] # NoDir
  /\ uuid \in DOMAIN files[recipient_uuid]
\* OIM(...) as get_oim_single builds it from the JSON of a file, for the reader
\* `user`: to_email is the reader's email.
OIM(json_oim, user) ==
  [uuid |-> json_oim.uuid, from_email |-> json_oim.from, to_email |-> EmailOf[user],
   message |-> json_oim.message]
\* The None that get_oim_single returns, as a value comparable with an OIM.
NoOIM == [uuid |-> None, from_email |-> None, to_email |-> None, message |-> None]
\* Variant of get_oim_single whose first test is `if not oim_path.is_file()`.
get_oim_single_if_not(files, user, uuid, mark_read) ==
  IF ~is_file(files, user, uuid)
  THEN [files |-> files, err |-> None, ret |-> NoOIM]
  ELSE [files |-> IF mark_read
                  THEN [files EXCEPT ![user][uuid].is_read = TRUE] ELSE files,
        err |-> None, ret |-> OIM(files[user][uuid], user)]
\* UserService.get_oim_single(user, uuid, mark_read): the files after the call,
\* the exception that left it and the value returned. `if oim_path.is_file():
\* return None` comes first; oim_path.read_text() of a path that is no file
\* raises FileNotFoundError; the JSON of a file is a dict.
get_oim_single_do(files, user, uuid, mark_read) ==
  IF is_file(files, user, uuid)
  THEN [files |-> files, err |-> None, ret |-> NoOIM]
  ELSE IF ~is_file(files, user, uuid)
  THEN [files |-> files, err |-> "FileNotFoundError", ret |-> NoOIM]
  ELSE [files |-> IF mark_read
                  THEN [files EXCEPT ![user][uuid].is_read = TRUE] ELSE files,
        err |-> None, ret |-> OIM(files[user][uuid], user)]
get_oim_single(user, uuid, mark_read) ==
  /\ oim_files' = get_oim_single_do(oim_files, user, uuid, mark_read).files
  /\ sent' = NoEvents
  /\ UNCHANGED <<db, settings, user_status, user_detail, heap, user_by_uuid, unsynced_db,
                 ncs_by_user, nc_by_token, sess_user, sess_token, auth_tokens>>
\* UserService.get_oim_batch(user): the messages get_oim_single returns for the
\* files of the directory, those it returns None for left out.
get_oim_batch(files, user) ==
  IF files[user] = NoDir THEN {}
  ELSE {get_oim_single_do(files, user, name, FALSE).ret :
          name \in {n \in DOMAIN files[user] :
                      get_oim_single_do(files, user, n, FALSE).ret # NoOIM}}
\* UserService.save_oim(bs, recipient_uuid, ..., message, ...): oim_uuid is the
\* name gen_uuid made up. The directory is made, and nothing is written when the
\* file is there already. The notice to the recipient's sessions that follows
\* the write (bs.me_contact_notify_oim) is code of the backend, not modelled.
save_oim_files(files, user, recipient_uuid, message, oim_uuid) ==
  LET made == IF files[recipient_uuid] = NoDir
              THEN [files EXCEPT ![recipient_uuid] = Empty] ELSE files
  IN IF is_file(made, recipient_uuid, oim_uuid) THEN made
     ELSE [made EXCEPT ![recipient_uuid] =
             Put(@, oim_uuid, [uuid |-> oim_uuid, from |-> EmailOf[user],
                               is_read |-> FALSE, message |-> message])]
save_oim(bs, recipient_uuid, message, oim_uuid) ==
  /\ oim_files' = save_oim_files(oim_files, sess_user[bs], recipient_uuid, message, oim_uuid)
  /\ sent' = NoEvents
  /\ UNCHANGED <<db, settings, user_status, user_detail, heap, user_by_uuid, unsynced_db,
                 ncs_by_user, nc_by_token, sess_user, sess_token, auth_tokens>>
\* UserService.delete_oim(recipient_uuid, uuid).
delete_oim_files(files, recipient_uuid, uuid) ==
  IF ~is_file(files, recipient_uuid, uuid) THEN files
  ELSE [files EXCEPT ![recipient_uuid] = Del(@, uuid)]
delete_oim(recipient_uuid, uuid) ==
  /\ oim_files' = delete_oim_files(oim_files, recipient_uuid, uuid)
  /\ sent' = NoEvents
  /\ UNCHANGED <<db, settings, user_status, user_detail, heap, user_by_uuid, unsynced_db,
                 ncs_by_user, nc_by_token, sess_user, sess_token, auth_tokens>>

\* ------------------------------------------------------------------ Next
\* The client behind session s signs in as Client[s], with the token it was
\* given: TokenOf[s], a string minted again only once nothing holds it any more.
Client == [s \in Sessions |-> IF s = "s3" THEN "b" ELSE "a"]
TokenOf == [s \in Sessions |-> CASE s = "s1" -> "t1" [] s = "s2" -> "t2" [] OTHER -> "t3"]

LoginStart(SS) ==
  /\ \E s \in SS : \E uuid \in {Client[s], None} :
        ~Registered(s) /\ login_twn_start(uuid, TokenOf[s])
  /\ UNCHANGED <<n_sync, cal_tokens, pump_alive, oim_files, unsynced_keys, save_calls, announced>>
LoginVerify(SS) ==
  /\ \E s \in SS : ~Registered(s) /\ login_twn_verify(s, TokenOf[s])
  /\ UNCHANGED <<n_sync, cal_tokens, pump_alive, oim_files, unsynced_keys, save_calls, announced>>
\* Clients that present any token to any session, and tokens that run out.
TokensIn == {"t1", "t2"}
LoginStartAny ==
  /\ \E uuid \in Users \cup {None}, token \in TokensIn : login_twn_start(uuid, token)
  /\ UNCHANGED <<n_sync, cal_tokens, pump_alive, oim_files, unsynced_keys, save_calls, announced>>
LoginVerifyAny(SS) ==
  /\ \E s \in SS, token \in TokensIn : ~Registered(s) /\ login_twn_verify(s, token)
  /\ UNCHANGED <<n_sync, cal_tokens, pump_alive, oim_files, unsynced_keys, save_calls, announced>>
TokenExpires ==
  /\ \E token \in TokensIn : token_expires(token)
  /\ UNCHANGED <<n_sync, cal_tokens, pump_alive, oim_files, unsynced_keys, save_calls, announced>>
\* Calls: any user calls any address; the sessions of a known callee are
\* iterated in any order. A caller stops once MaxCalls call tokens are alive.
EmailsIn == {EmailOf[u] : u \in Users} \cup {"x@x"}
Orders(S) == {o \in [1..Cardinality(S) -> S] : \A i, j \in DOMAIN o : o[i] = o[j] => i = j}
OrdersFor(email) == IF get_uuid(email) = None THEN {<<>>} ELSE Orders(ncs_by_user[get_uuid(email)])
NotifyCall ==
  /\ \E caller_uuid \in Users, callee_email \in EmailsIn :
       \E order \in OrdersFor(callee_email) :
          /\ Cardinality(DOMAIN cal_tokens) < MaxCalls
          /\ notify_call(caller_uuid, callee_email, "c1", order)
  /\ UNCHANGED <<n_sync, pump_alive, oim_files, unsynced_keys, save_calls, announced>>
\* A front-end reports a lost connection once per Session, registered or never
\* logged in, and then drops it: a later login under the name s is the login of
\* a new Session object.
ConnectionLost(SS) ==
  /\ \E s \in SS :
        /\ Registered(s) \/ sess_user[s] = None
        /\ on_connection_lost(s)
  /\ UNCHANGED <<n_sync, cal_tokens, pump_alive, oim_files, unsynced_keys, save_calls, announced>>
MeUpdate(SS, VV) ==
  /\ \E s \in SS, v \in VV :
        Registered(s) /\ me_update(s, [k \in {"substatus"} |-> v])
  /\ UNCHANGED <<n_sync, cal_tokens, pump_alive, oim_files, unsynced_keys, save_calls, announced>>
\* me_update with any of the dicts in FF.
MeUpdateFields(SS, FF) ==
  /\ \E s \in SS, fields \in FF : Registered(s) /\ me_update(s, fields)
  /\ UNCHANGED <<n_sync, cal_tokens, pump_alive, oim_files, unsynced_keys, save_calls, announced>>
ContactAdd(SS, LL) ==
  /\ \E s \in SS, c \in Uuids, lst \in LL :
        Registered(s) /\ c # sess_user[s] /\ me_contact_add(s, c, lst)
  /\ UNCHANGED <<n_sync, cal_tokens, pump_alive, oim_files, unsynced_keys, save_calls, announced>>
\* contact_add with any uuid, the caller's own included.
ContactAddAny(SS, LL) ==
  /\ \E s \in SS, c \in Uuids, lst \in LL :
        Registered(s) /\ me_contact_add(s, c, lst)
  /\ UNCHANGED <<n_sync, cal_tokens, pump_alive, oim_files, unsynced_keys, save_calls, announced>>
ContactRemove(SS, LL) ==
  /\ \E s \in SS, c \in Uuids, lst \in LL :
        Registered(s) /\ me_contact_remove(s, c, lst)
  /\ UNCHANGED <<n_sync, cal_tokens, pump_alive, oim_files, unsynced_keys, save_calls, announced>>
\* Group calls. A client stops adding groups once it has MaxGroups of them, and
\* names group ids from "0" to str(MaxGroups).
GroupIdsIn == {str(i) : i \in 0..MaxGroups}
GroupsOf(u) == IF user_detail[u] = NoDetail THEN Empty ELSE heap[user_detail[u]].groups
GroupAdd(SS, NN) ==
  /\ \E s \in SS, name \in NN :
        /\ Registered(s)
        /\ Cardinality(DOMAIN GroupsOf(sess_user[s])) < MaxGroups
        /\ me_group_add(s, name)
  /\ UNCHANGED <<n_sync, cal_tokens, pump_alive, oim_files, unsynced_keys, save_calls, announced>>
GroupRemove(SS) ==
  /\ \E s \in SS, group_id \in GroupIdsIn : Registered(s) /\ me_group_remove(s, group_id)
  /\ UNCHANGED <<n_sync, cal_tokens, pump_alive, oim_files, unsynced_keys, save_calls, announced>>
GroupContactAdd(SS) ==
  /\ \E s \in SS, group_id \in GroupIdsIn, c \in Uuids :
        Registered(s) /\ me_group_contact_add(s, group_id, c)
  /\ UNCHANGED <<n_sync, cal_tokens, pump_alive, oim_files, unsynced_keys, save_calls, announced>>
GroupContactRemove(SS) ==
  /\ \E s \in SS, group_id \in GroupIdsIn, c \in Uuids :
        Registered(s) /\ me_group_contact_remove(s, group_id, c)
  /\ UNCHANGED <<n_sync, cal_tokens, pump_alive, oim_files, unsynced_keys, save_calls, announced>>
GroupEdit(SS) ==
  /\ \E s \in SS, group_id \in GroupIdsIn, new_name \in {Friends} :
        Registered(s) /\ me_group_edit(s, group_id, new_name)
  /\ UNCHANGED <<n_sync, cal_tokens, pump_alive, oim_files, unsynced_keys, save_calls, announced>>
\* contact_edit: a client sets one flag or the other.
ContactEdit(SS) ==
  /\ \E s \in SS, c \in Uuids, flags \in {<<"True", None>>, <<None, "True">>} :
        Registered(s) /\ me_contact_edit(s, c, flags[1], flags[2])
  /\ UNCHANGED <<n_sync, cal_tokens, pump_alive, oim_files, unsynced_keys, save_calls, announced>>
\* contact_add at a moment the store does not answer.
ContactAddStoreDown(SS, LL) ==
  /\ \E s \in SS, c \in Uuids, lst \in LL :
        Registered(s) /\ c # sess_user[s] /\ me_contact_add_store_down(s, c, lst)
  /\ UNCHANGED <<n_sync, cal_tokens, pump_alive, oim_files, unsynced_keys, save_calls, announced>>
\* _sync_db: one turn of the loop, while the task is in it.
Pump ==
  /\ pump_alive
  /\ n_sync < MaxSync
  /\ \E saved \in BOOLEAN : sync_db_impl(saved)
  /\ n_sync' = n_sync + 1
  /\ UNCHANGED <<cal_tokens, oim_files, unsynced_keys, save_calls, announced>>

\* Sessions and presence: two sessions of "a", one of "b".
Next ==
  \/ LoginStart(Sessions)
  \/ LoginVerify(Sessions)
  \/ ConnectionLost(Sessions)
  \/ MeUpdate(Sessions, {"Online"})
  \/ ContactAdd(Sessions, {FL})
  \/ ContactRemove(Sessions, {FL})

Spec == Init /\ [][Next]_vars

\* The lists of a contact: one session per user, every list a client may name.
One == {"s1", "s3"}
NextLists ==
  \/ LoginStart(One)
  \/ LoginVerify(One)
  \/ ConnectionLost(One)
  \/ MeUpdate(One, {"Online"})
  \/ ContactAdd(One, {FL, AL, BL})
  \/ ContactRemove(One, {FL, AL, BL})

SpecLists == InitWith(EmptyDb) /\ [][NextLists]_vars

\* Persistence: one session per user, the forward list, and the pump.
NextSync ==
  \/ LoginStart(One)
  \/ LoginVerify(One)
  \/ ConnectionLost(One)
  \/ MeUpdate(One, {"Online"})
  \/ ContactAdd(One, {FL})
  \/ ContactRemove(One, {FL})
  \/ Pump

SpecSync == InitWith(EmptyDb) /\ [][NextSync]_vars

\* Users that put themselves on a list: two sessions of "a", one of "b".
NextSelf ==
  \/ LoginStart(Sessions)
  \/ LoginVerify(Sessions)
  \/ ConnectionLost(Sessions)
  \/ MeUpdate(Sessions, {"Online"})
  \/ ContactAddAny(Sessions, {FL})
  \/ ContactRemove(Sessions, {FL})

SpecSelf == InitWith(EmptyDb) /\ [][NextSelf]_vars

\* Groups: the session of "a", which keeps a roster and sorts it into groups.
Solo == {"s1"}
NextGroups ==
  \/ LoginStart(Solo)
  \/ LoginVerify(Solo)
  \/ ConnectionLost(Solo)
  \/ ContactAddAny(Solo, {FL, AL})
  \/ ContactRemove(Solo, {FL, AL})
  \/ GroupAdd(Solo, {Friends, NoGroupName})
  \/ GroupRemove(Solo)
  \/ GroupContactAdd(Solo)
  \/ GroupContactRemove(Solo)

SpecGroups == InitWith(EmptyDb) /\ [][NextGroups]_vars

\* The roster calls of one client, with a store that may not answer.
NextRoster ==
  \/ LoginStart(Solo)
  \/ LoginVerify(Solo)
  \/ ConnectionLost(Solo)
  \/ ContactAdd(Solo, {FL, AL})
  \/ ContactAddStoreDown(Solo, {FL, AL})
  \/ ContactEdit(Solo)
  \/ ContactRemove(Solo, {FL, AL})
  \/ GroupAdd(Solo, {Friends})
  \/ GroupEdit(Solo)
  \/ GroupRemove(Solo)
  \/ GroupContactAdd(Solo)
  \/ GroupContactRemove(Solo)

SpecRoster == InitWith(EmptyDb) /\ [][NextRoster]_vars

\* Logging in: three sessions, two token strings, either user behind a token.
NextLogin ==
  \/ LoginStartAny
  \/ LoginVerifyAny(Sessions)
  \/ TokenExpires
  \/ ConnectionLost(Sessions)
  \/ MeUpdate(Sessions, {"Online"})

SpecLogin == Init /\ [][NextLogin]_vars

\* Calls between saved friends: two sessions of "a", which sets its status,
\* blocks by default and may put "b" on its allow list, and one of "b", which
\* may drop "a" from its roster.
NextCall ==
  \/ LoginStart(Sessions)
  \/ LoginVerify(Sessions)
  \/ ConnectionLost(Sessions)
  \/ MeUpdate({"s1", "s2"}, SubstatusIn)
  \/ ContactAdd({"s1"}, {AL})
  \/ ContactRemove({"s3"}, {FL})
  \/ NotifyCall

SpecCall == InitWith(FriendsDb) /\ [][NextCall]_vars

\* Calls to sessions that may close while they are sent to.
NotifyCallLive ==
  /\ \E caller_uuid \in Users, callee_email \in EmailsIn :
       \E order \in OrdersFor(callee_email) :
         \E closing \in SUBSET {order[i] : i \in DOMAIN order} :
            /\ Cardinality(DOMAIN cal_tokens) < MaxCalls
            /\ notify_call_live(caller_uuid, callee_email, "c1", order, closing)
  /\ UNCHANGED <<n_sync, pump_alive, oim_files, unsynced_keys, save_calls, announced>>
NextFanout ==
  \/ LoginStart(Sessions)
  \/ LoginVerify(Sessions)
  \/ ConnectionLost(Sessions)
  \/ MeUpdate({"s1", "s2"}, SubstatusIn)
  \/ ContactAdd({"s1"}, {AL})
  \/ ContactRemove({"s3"}, {FL})
  \/ NotifyCallLive

SpecFanout == InitWith(FriendsDb) /\ [][NextFanout]_vars

\* Sessions that log in again: a session presents a token whether or not it
\* is registered already.
LoginVerifyAgain(SS) ==
  /\ \E s \in SS, token \in TokensIn : login_twn_verify(s, token)
  /\ UNCHANGED <<n_sync, cal_tokens, pump_alive, oim_files, unsynced_keys, save_calls, announced>>
NextRelogin ==
  \/ LoginStartAny
  \/ LoginVerifyAgain(Sessions)
  \/ TokenExpires
  \/ ConnectionLost(Sessions)

SpecRelogin == Init /\ [][NextRelogin]_vars

\* Users that come back: one session per user, friends in the store. `announced`
\* keeps who has set a substatus since coming online; it is emptied of a user
\* whose last session is lost.
MeUpdateAnnounce(SS, VV) ==
  /\ \E s \in SS, v \in VV :
        /\ Registered(s)
        /\ me_update(s, [k \in {"substatus"} |-> v])
        /\ announced' = announced \cup {sess_user[s]}
  /\ UNCHANGED <<n_sync, cal_tokens, pump_alive, oim_files, unsynced_keys, save_calls>>
ConnectionLostAnnounce(SS) ==
  /\ \E s \in SS :
        /\ Registered(s)
        /\ on_connection_lost(s)
        /\ announced' = IF ncs_by_user'[sess_user[s]] = {}
                         THEN announced \ {sess_user[s]} ELSE announced
  /\ UNCHANGED <<n_sync, cal_tokens, pump_alive, oim_files, unsynced_keys, save_calls>>
NextReturn ==
  \/ LoginStart(One)
  \/ LoginVerify(One)
  \/ ConnectionLostAnnounce(One)
  \/ MeUpdateAnnounce(One, {"Online"})
  \/ ContactAdd(One, {FL})

SpecReturn == InitWith(FriendsDb) /\ [][NextReturn]_vars

\* Calls and blocks: one session per user, friends in the store; "a" sets its
\* status and puts "b" on and off its allow and block lists, and either calls.
NextBlock ==
  \/ LoginStart(One)
  \/ LoginVerify(One)
  \/ ConnectionLost(One)
  \/ MeUpdate({"s1"}, SubstatusIn)
  \/ MeUpdateFields({"s1"}, {[k \in {"blp"} |-> v] : v \in {"AL", "BL"}})
  \/ ContactAdd({"s1"}, {AL, BL})
  \/ ContactRemove({"s1"}, {AL, BL})
  \/ NotifyCall

SpecBlock == InitWith(FriendsDb) /\ [][NextBlock]_vars

\* The pump as the task it is: a loop that is never counted out. The event
\* loop runs a task whose sleep is over, hence the weak fairness of the tick.
PumpTick ==
  /\ pump_alive
  /\ \E saved \in BOOLEAN : sync_db_impl(saved)
  /\ UNCHANGED <<n_sync, cal_tokens, oim_files, unsynced_keys, save_calls, announced>>
NextPump ==
  \/ LoginStart(One)
  \/ LoginVerify(One)
  \/ ConnectionLost(One)
  \/ MeUpdate({"s1"}, {"Online"})
  \/ ContactAdd(One, {FL})
  \/ ContactRemove(One, {FL})
  \/ PumpTick

SpecPump == InitWith(EmptyDb) /\ [][NextPump]_vars /\ WF_vars(PumpTick)

\* Offline messages: one session per user; a logged-in user leaves a message
\* for either user, and the files of a user are read and deleted.
SaveOim(SS) ==
  /\ \E bs \in SS, recipient_uuid \in Users, oim_uuid \in OimIds :
        Registered(bs) /\ save_oim(bs, recipient_uuid, "hi", oim_uuid)
  /\ UNCHANGED <<n_sync, cal_tokens, pump_alive, unsynced_keys, save_calls, announced>>
GetOimSingle ==
  /\ \E user \in Users, uuid \in OimIds, mark_read \in BOOLEAN :
        get_oim_single(user, uuid, mark_read)
  /\ UNCHANGED <<n_sync, cal_tokens, pump_alive, unsynced_keys, save_calls, announced>>
DeleteOim ==
  /\ \E recipient_uuid \in Users, uuid \in OimIds : delete_oim(recipient_uuid, uuid)
  /\ UNCHANGED <<n_sync, cal_tokens, pump_alive, unsynced_keys, save_calls, announced>>
NextOim ==
  \/ LoginStart(One)
  \/ LoginVerify(One)
  \/ ConnectionLost(One)
  \/ SaveOim(One)
  \/ GetOimSingle
  \/ DeleteOim

SpecOim == InitWith(EmptyDb) /\ [][NextOim]_vars

\* The pump of a server with up to MaxDirty dirty users. Users are numbered;
\* a user that is marked is the one after the user marked last, or the one
\* that has been dirty longest.
NextKey == IF unsynced_keys = <<>> THEN 1
           ELSE (unsynced_keys[Len(unsynced_keys)] % MaxDirty) + 1
MarkModified ==
  /\ \E user \in {NextKey} \cup {unsynced_keys[i] : i \in DOMAIN unsynced_keys \cap {1}} :
        unsynced_keys' = mark_key(unsynced_keys, user)
  /\ save_calls' = <<>>
  /\ UNCHANGED <<db, settings, user_status, user_detail, heap, user_by_uuid, unsynced_db,
                 ncs_by_user, nc_by_token, sess_user, sess_token, auth_tokens, sent,
                 n_sync, cal_tokens, pump_alive, oim_files, announced>>
SyncKeys ==
  /\ unsynced_keys' = sync_db_impl_keys(unsynced_keys).keys
  /\ save_calls' = sync_db_impl_keys(unsynced_keys).calls
  /\ UNCHANGED <<db, settings, user_status, user_detail, heap, user_by_uuid, unsynced_db,
                 ncs_by_user, nc_by_token, sess_user, sess_token, auth_tokens, sent,
                 n_sync, cal_tokens, pump_alive, oim_files, announced>>
NextBatch ==
  \/ MarkModified
  \/ SyncKeys

SpecBatch == InitWith(EmptyDb) /\ [][NextBatch]_vars

\* The block-list policy: one session per user, clients that set substatus or blp.
Field(k, v) == [x \in {k} |-> v]
NextPolicy ==
  \/ LoginStart(One)
  \/ LoginVerify(One)
  \/ ConnectionLost(One)
  \/ MeUpdateFields(One, {Field("substatus", "Online"), Field("blp", "BL"), Field("blp", "AL")})
  \/ ContactAdd(One, {FL})
  \/ ContactRemove(One, {FL})

SpecPolicy == InitWith(EmptyDb) /\ [][NextPolicy]_vars

\* ---------------------------------------------------------------- claims
LoggedIn(u) == ncs_by_user[u] # {}
\* The lists of u's contact for h in u's attached detail ({}: no such contact).
ListsOf(u, h) ==
  IF user_detail[u] # NoDetail /\ h \in DOMAIN heap[user_detail[u]].contacts
  THEN heap[user_detail[u]].contacts[h].lists
  ELSE {}
\* This step is a contact_add or contact_remove on FL that returned, made by a
\* session of a logged-in user about another logged-in user.
FLCall(s, c) ==
  /\ Registered(s) /\ c # sess_user[s] /\ LoggedIn(c)
  /\ \/ me_contact_add(s, c, FL)
     \/ c \in DOMAIN heap[user_detail[sess_user[s]]].contacts /\ me_contact_remove(s, c, FL)

\* C1: RL mirrors FL. After every contact_add / contact_remove on FL made by one
\* of two logged-in users about the other, for both orders (A, B) of the two:
\* A's contact for B has FL iff B's contact for A has RL.
C1_RLMirrorsFL ==
  [][\A s \in Sessions, c \in Users :
       FLCall(s, c) =>
         \A A, B \in {sess_user[s], c} :
           A # B => ((FL \in ListsOf(A, B)') <=> (RL \in ListsOf(B, A)'))]_vars

\* C2: AL/BL exclusive. No Contact of any detail has both AL and BL set.
C2_ALBLExclusive ==
  \A r \in DOMAIN heap : \A h \in DOMAIN heap[r].contacts :
    ~({AL, BL} \subseteq heap[r].contacts[h].lists)

\* C3: purge empty contacts. No contacts map holds a Contact whose lists are empty.
C3_PurgeEmpty ==
  \A r \in DOMAIN heap : \A h \in DOMAIN heap[r].contacts :
    heap[r].contacts[h].lists # {}

\* The visibility function, as the owner O of a contact with head H is meant to
\* see it.
Visible(H, O) ==
  IF user_detail[H] = NoDetail \/ is_blocking(Mem, H, O) THEN "Offline" ELSE user_status[H]
Presence(u, substatus) == [type |-> "PresenceNotification", user |-> u, substatus |-> substatus]

\* C4: blocking hides presence. For every logged-in observer O holding a contact
\* whose head H is logged in and blocks O, the contact's substatus is Offline.
C4_BlockingHidesPresence ==
  \A O, H \in Users :
    (LoggedIn(O) /\ LoggedIn(H) /\ H \in DOMAIN heap[user_detail[O]].contacts
       /\ is_blocking(Mem, H, O))
    => heap[user_detail[O]].contacts[H].substatus = "Offline"
\* "b", Online, has just added "a" to BL while "a" has "b" on FL: the session of
\* "a" was sent the presence of "b", showing Offline.
C4_Witness ==
  /\ LoggedIn("a") /\ LoggedIn("b")
  /\ user_status["b"] = "Online"
  /\ BL \in ListsOf("b", "a") /\ FL \in ListsOf("a", "b")
  /\ heap[user_detail["a"]].contacts["b"].substatus = "Offline"
  /\ sent["s1"] = <<Presence("b", "Offline")>>

\* C5: visible status is always derived. For every logged-in owner O and every
\* contact of O, the contact's substatus is what the visibility function gives.
C5_VisibleStatusDerived ==
  \A O \in Users :
    LoggedIn(O) =>
      \A H \in DOMAIN heap[user_detail[O]].contacts :
        heap[user_detail[O]].contacts[H].substatus = Visible(H, O)

\* C6: the decision table of is_blocking. For every blocker with a detail and
\* every blockee: blocking iff BL is set, or neither BL nor AL is set (no contact
\* counts as no list) and the blocker's BLP setting, AL when absent, is BL.
C6_DecisionTable ==
  \A blocker \in Users, blockee \in Uuids :
    user_detail[blocker] # NoDetail =>
      LET lists == ListsOf(blocker, blockee)
          BLP == IF settings[blocker] = "unset" THEN "AL" ELSE settings[blocker]
      IN is_blocking(Mem, blocker, blockee)
           <=> (BL \in lists \/ (BL \notin lists /\ AL \notin lists /\ BLP = "BL"))
\* A contact with both AL and BL set: BL wins.
C6_Witness ==
  /\ {AL, BL} \subseteq ListsOf("b", "a")
  /\ is_blocking(Mem, "b", "a")
  /\ ListsOf("a", "b") = {AL} /\ ~is_blocking(Mem, "a", "b")

\* C7: detail lifecycle. A user's detail is set iff the user has a session in the
\* registry; a login of a user whose detail is set leaves that detail as it is
\* (it is not loaded again); the detail goes from set to cleared in exactly the
\* steps in which the user's last session leaves the registry.
C7_DetailLifecycle ==
  /\ [](\A u \in Users : user_detail[u] # NoDetail <=> ncs_by_user[u] # {})
  /\ [][\A u \in Users :
          /\ (user_detail[u] # NoDetail /\ ncs_by_user[u] # ncs_by_user'[u]
                 /\ ncs_by_user[u] \subseteq ncs_by_user'[u])
              => (user_detail'[u] # NoDetail /\ heap'[user_detail'[u]] = heap[user_detail[u]])
          /\ (user_detail[u] # NoDetail /\ user_detail'[u] = NoDetail)
              <=> (ncs_by_user[u] # {} /\ ncs_by_user'[u] = {})]_vars
\* Both sessions of "a" are logged in on a detail that holds a change the store
\* has not seen, and "b" has logged in and out again.
C7_Witness ==
  /\ ncs_by_user["a"] = {"s1", "s2"}
  /\ user_detail["a"] # NoDetail
  /\ heap[user_detail["a"]].contacts # get_detail("a").contacts
  /\ sess_user["s3"] = "b" /\ ncs_by_user["b"] = {} /\ user_detail["b"] = NoDetail

\* C8: single detail instance. No user has two UserDetail instances alive, and
\* the instance the dirty set holds for a user with a detail is that detail.
C8_SingleInstance ==
  \A u \in Users :
    /\ Cardinality({r \in DOMAIN heap : r[1] = u}) <= 1
    /\ (u \in DOMAIN unsynced_db /\ user_detail[u] # NoDetail)
         => unsynced_db[u] = user_detail[u]

\* C9: a logout that is not the user's last is silent. In a step that takes the
\* session s of user u out of the registry while another session of u stays, the
\* registry changes by s alone, no detail is cleared, no detail (so no contact
\* status) changes, and no session is sent an event.
C9_NonLastLogoutSilent ==
  [][\A s \in Sessions :
       (Registered(s) /\ s \notin ncs_by_user'[sess_user[s]]
          /\ ncs_by_user'[sess_user[s]] # {})
       => /\ ncs_by_user' = [ncs_by_user EXCEPT ![sess_user[s]] = @ \ {s}]
          /\ nc_by_token' = Del(nc_by_token, sess_token[s])
          /\ user_detail' = user_detail
          /\ heap' = heap
          /\ user_status' = user_status
          /\ sent' = NoEvents]_vars
\* Session s1 of "a" is gone and s2 remains, while "b", logged in, holds "a" as
\* a contact: nothing was sent.
C9_Witness ==
  /\ sess_user["s1"] = "a" /\ ncs_by_user["a"] = {"s2"}
  /\ user_detail["a"] # NoDetail
  /\ LoggedIn("b") /\ ListsOf("b", "a") # {}
  /\ sent = NoEvents

\* C10: the last logout announces offline. In a step that takes the last session
\* of user u out of the registry, every session registered afterwards whose user
\* holds u as a contact is sent exactly one event: the presence of u, showing
\* Offline.
C10_LastLogoutAnnounces ==
  [][\A s \in Sessions :
       (Registered(s) /\ ncs_by_user'[sess_user[s]] = {})
       => \A o \in Sessions :
            (Registered(o)'
               /\ sess_user[s] \in DOMAIN heap'[user_detail'[sess_user[o]]].contacts)
            => sent'[o] = <<Presence(sess_user[s], "Offline")>>]_vars
\* "b", seen Online by "a", lost its only session: both sessions of "a" were sent
\* the presence of "b" showing Offline.
C10_Witness ==
  /\ sess_user["s3"] = "b" /\ ncs_by_user["b"] = {}
  /\ user_status["b"] = "Online"
  /\ ncs_by_user["a"] = {"s1", "s2"}
  /\ sent["s1"] = <<Presence("b", "Offline")>>
  /\ sent["s2"] = <<Presence("b", "Offline")>>

Substatuses == {"Offline"} \cup SubstatusIn
Range(seq) == {seq[i] : i \in DOMAIN seq}

\* C11: recompute before fan-out. Every PresenceNotification a call dispatches
\* carries, for its receiver, the status the visibility function gives on the
\* state the call leaves.
C11_RecomputeBeforeFanOut ==
  [][\A o \in Sessions, u \in Users, O \in Users, st \in Substatuses :
       (sess_user'[o] = O /\ Presence(u, st) \in Range(sent'[o]))
       => st = Visible(u, O)']_vars
\* "b" has just gone Online: the session of "a", who holds "b" as a contact, was
\* sent the presence of "b" showing Online, the status after the change.
C11_Witness ==
  /\ LoggedIn("a") /\ LoggedIn("b")
  /\ user_status["b"] = "Online"
  /\ sent["s1"] = <<Presence("b", "Online")>>
  /\ heap[user_detail["a"]].contacts["b"].substatus = "Online"

AddedToList(lst, user) == [type |-> "AddedToList", user |-> user, substatus |-> lst]
\* The sessions in `SS` were sent AddedToList(RL, adder), and before any
\* PresenceNotification of the step.
ReverseAddFirst(SS, adder) ==
  \A o \in SS :
    /\ Len(sent'[o]) >= 1
    /\ sent'[o][1] = AddedToList(RL, adder)
    /\ \A i \in 2..Len(sent'[o]) : sent'[o][i].type = "PresenceNotification"

\* C12 as stated: during contact_add on FL every session of the added contact
\* is sent AddedToList(RL, adder), before the PresenceNotification of the call.
C12_EverySessionOfContact ==
  [][\A s \in Sessions, c \in Users :
       (Registered(s) /\ ncs_by_user[c] # {} /\ me_contact_add(s, c, FL))
       => ReverseAddFirst(ncs_by_user[c], sess_user[s])]_vars
\* C12, amended: during contact_add on FL every session of the added contact
\* other than the acting session is sent AddedToList(RL, adder), before the
\* PresenceNotification of the call.
C12_ReverseAddFirst ==
  [][\A s \in Sessions, c \in Users :
       (Registered(s) /\ ncs_by_user[c] \ {s} # {} /\ me_contact_add(s, c, FL))
       => ReverseAddFirst(ncs_by_user[c] \ {s}, sess_user[s])]_vars
\* "b", Online, has just added "a" to FL: both sessions of "a" were sent the
\* notice and then the presence of "b".
C12_Witness ==
  /\ ncs_by_user["a"] = {"s1", "s2"}
  /\ sent["s1"] = <<AddedToList(RL, "b"), Presence("b", "Online")>>
  /\ sent["s2"] = <<AddedToList(RL, "b"), Presence("b", "Online")>>

\* C13: fan-out recipients. In a step that dispatches the presence of user u, a
\* session is sent it iff it is registered, its user holds a contact for u, and
\* it is not a session of u.
C13_FanOutRecipients ==
  [][\A u \in Users :
       (\E o \in Sessions, st \in Substatuses : Presence(u, st) \in Range(sent'[o]))
       => \A o \in Sessions :
            (\E st \in Substatuses : Presence(u, st) \in Range(sent'[o]))
            <=> /\ o \in get_ncs(ncs_by_user')
                /\ sess_user'[o] # u
                /\ u \in DOMAIN heap'[user_detail'[sess_user'[o]]].contacts]_vars

\* Session o was sent, in this step, the presence of user u.
GotPresence(o, u) == \E st \in Substatuses : Presence(u, st) \in Range(sent'[o])

\* C14: mutual add. With two users logged in on empty rosters, a contact_add on
\* FL by one about the other sends the acting session the presence of the added
\* user and the sessions of the added user the presence of the actor.
C14_MutualAdd ==
  [][\A s \in Sessions, c \in Users :
       (/\ Registered(s) /\ c # sess_user[s] /\ LoggedIn(c)
        /\ heap[user_detail[sess_user[s]]].contacts = Empty
        /\ heap[user_detail[c]].contacts = Empty
        /\ me_contact_add(s, c, FL))
       => /\ GotPresence(s, c)
          /\ \A o \in ncs_by_user[c] : GotPresence(o, sess_user[s])]_vars

\* C15: contact_remove is a presence-affecting mutation. When a contact_remove
\* of AL or BL changes whether the actor u blocks a logged-in observer O that
\* holds u as a contact, O's contact for u is recomputed and every session of O
\* is sent the presence of u.
C15_RemoveFansOut ==
  [][\A s \in Sessions, u \in Users, O \in Users, lst \in {AL, BL} :
       (/\ Registered(s) /\ sess_user[s] = u /\ O # u /\ LoggedIn(O)
        /\ u \in DOMAIN heap[user_detail[O]].contacts
        /\ O \in DOMAIN heap[user_detail[u]].contacts
        /\ me_contact_remove(s, O, lst)
        /\ is_blocking(Mem, u, O) # is_blocking(Mem, u, O)')
       => /\ heap'[user_detail'[O]].contacts[u].substatus = Visible(u, O)'
          /\ \A o \in ncs_by_user[O] : GotPresence(o, u)]_vars

\* C16: me_update applies the block-list policy. After me_update with blp = BL
\* the user u blocks every X for which u has neither AL nor BL set, and a
\* logged-in X of that kind holding u as a contact sees u Offline; after
\* me_update with blp = AL such an X sees the true substatus of u.
C16_UpdateAppliesPolicy ==
  [][\A s \in Sessions, u \in Users, X \in Users, blp \in {"AL", "BL"} :
       (/\ Registered(s) /\ sess_user[s] = u /\ X # u
        /\ AL \notin ListsOf(u, X) /\ BL \notin ListsOf(u, X)
        /\ me_update(s, Field("blp", blp)))
       => /\ blp = "BL" => is_blocking(Mem, u, X)'
          /\ (LoggedIn(X) /\ u \in DOMAIN heap[user_detail[X]].contacts)
               => heap'[user_detail'[X]].contacts[u].substatus
                    = IF blp = "BL" THEN "Offline" ELSE user_status'[u]]_vars

\* The names a client may pass to group_add: the ones of the group calls above,
\* and names at and past the length limit.
GroupNamesIn ==
  {Friends, NoGroupName, NameOfLen(MAX_GROUP_NAME_LENGTH), NameOfLen(MAX_GROUP_NAME_LENGTH + 1)}

\* C17: group_add validation. Whatever the state and the name, group_add fails
\* with GroupNameTooLong when the name has more than 61 characters, rejects the
\* reserved name "(No Group)", and fails with GroupAlreadyExists when a group
\* of the user already has exactly that name; so no two groups of a user have
\* the same name.
C17_GroupAddValidation ==
  /\ \A s \in Sessions : Registered(s) =>
        \A name \in GroupNamesIn :
          LET res == me_group_add_do(s, name)
              groups == GroupsOf(sess_user[s])
          IN /\ Len(name) > 61 => res.err = "GroupNameTooLong"
             /\ name = NoGroupName => res.err # None
             /\ (Len(name) <= 61 /\ \E g \in DOMAIN groups : groups[g] = name)
                  => res.err = "GroupAlreadyExists"
  /\ \A r \in DOMAIN heap : \A g, h \in DOMAIN heap[r].groups :
        heap[r].groups[g] = heap[r].groups[h] => g = h

\* The smallest positive integer whose decimal string is no key of groups.
SmallestFree(groups) ==
  CHOOSE i \in 1..(Cardinality(DOMAIN groups) + 1) :
    /\ str(i) \notin DOMAIN groups
    /\ \A j \in 1..(i - 1) : str(j) \in DOMAIN groups

GroupIdsAny == GroupIdsIn \cup {str(MaxGroups + 1)}

C20_GroupedImpliesFL ==
  \A r \in DOMAIN heap : \A c \in DOMAIN heap[r].contacts :
    heap[r].contacts[c].groups # {} => FL \in heap[r].contacts[c].lists

\* C21: group_contact_remove. Whatever the state, the group id and the contact,
\* group_contact_remove fails when the user has no such contact, when the user
\* has no such group, and when the contact is not a member of the group (with
\* ContactNotOnList for the id "0"); when it returns, the contact was a member
\* and has lost exactly that membership.
C21_GroupContactRemove ==
  \A s \in Sessions : Registered(s) =>
    \A group_id \in GroupIdsAny, c \in Uuids :
      LET res == me_group_contact_remove_do(s, group_id, c)
          r == user_detail[sess_user[s]]
          before == heap[r]
          after == res.m.heap[r]
          known == c \in DOMAIN before.contacts
      IN /\ ~known => res.err # None
         /\ (group_id # "0" /\ group_id \notin DOMAIN before.groups) => res.err # None
         /\ (known /\ group_id = "0" /\ group_id \notin before.contacts[c].groups)
              => res.err = "ContactNotOnList"
         /\ (known /\ group_id \notin before.contacts[c].groups) => res.err # None
         /\ res.err = None =>
              /\ group_id \in before.contacts[c].groups
              /\ after.contacts[c].groups = before.contacts[c].groups \ {group_id}

\* The errors of core.error that the roster calls raise.
CoreErrors ==
  {"UserDoesNotExist", "ContactDoesNotExist", "ContactAlreadyOnList", "ContactNotOnList",
   "GroupDoesNotExist", "GroupNameTooLong", "GroupAlreadyExists", "CannotRemoveSpecialGroup"}
FlagsIn == {None, "True", "False"}
\* What each roster call of session s gives, for every argument a client may pass.
RosterCalls(s) ==
  {me_group_add_do(s, name) : name \in GroupNamesIn}
  \cup {me_group_remove_do(s, g) : g \in GroupIdsAny}
  \cup {me_group_edit_do(s, g, name) : g \in GroupIdsAny, name \in GroupNamesIn}
  \cup {me_group_contact_add_do(s, g, c) : g \in GroupIdsAny, c \in Uuids}
  \cup {me_group_contact_remove_do(s, g, c) : g \in GroupIdsAny, c \in Uuids}
  \cup {me_contact_add_do(s, c, lst, loads) : c \in Uuids, lst \in {FL, AL, BL}, loads \in BOOLEAN}
  \cup {me_contact_edit_do(s, c, mu, fav) : c \in Uuids, mu \in FlagsIn, fav \in FlagsIn}
  \cup {me_contact_remove_do(s, c, lst) : c \in Uuids, lst \in {FL, AL, BL}}

\* C22: validation failures do not mutate state. Whatever the state, a roster
\* call that raises one of the core errors leaves the details (rosters and
\* groups), the contact statuses, the user records and the dirty set as they
\* were before the call, and has sent no event.
C22_FailuresDoNotMutate ==
  \A s \in Sessions : Registered(s) =>
    \A res \in RosterCalls(s) : res.err \in CoreErrors => res.m = Mem
\* A user with a dirty roster, a contact in group "1", and calls that fail.
C22_Witness ==
  \E s \in Sessions :
    /\ Registered(s)
    /\ sess_user[s] \in DOMAIN unsynced_db
    /\ me_contact_remove_do(s, "x", FL).err = "ContactDoesNotExist"
    /\ me_contact_add_do(s, "x", FL, TRUE).err = "UserDoesNotExist"
    /\ me_group_contact_add_do(s, "1", "b").err = "ContactAlreadyOnList"
    /\ me_group_remove_do(s, "0").err = "CannotRemoveSpecialGroup"

\* C23: contact_add FL is all-or-nothing. Whatever the state, when contact_add
\* with FL fails while it adds the RL mirror on the contact's side (the store
\* gives no detail for the contact), the actor's contacts and the dirty set are
\* as they were before the call.
C23_AddRollsBack ==
  \A s \in Sessions : Registered(s) =>
    \A c \in Users :
      LET res == me_contact_add_do(s, c, FL, FALSE)
          r == user_detail[sess_user[s]]
      IN res.err = "Exception" =>
           /\ res.m.heap[r].contacts = heap[r].contacts
           /\ res.m.unsynced_db = unsynced_db

\* C24: login tokens are single-use. A login_twn_verify that redeems a token
\* leaves it unknown to get_token, pop_token and login_twn_verify; a
\* login_twn_verify with a token that is not there binds no session; and a
\* token that is not there comes back only by login_twn_start minting it.
C24_TokenSingleUse ==
  [][\A token \in TokensIn :
       /\ \A s \in Sessions :
            (get_token(token) # None /\ login_twn_verify(s, token))
              => /\ get_token(token)' = None
                 /\ (pop_token(token).ret)' = None
                 /\ login_twn_verify_ret(token)' = None
       /\ \A s \in Sessions :
            (get_token(token) = None /\ login_twn_verify(s, token))
              => UNCHANGED <<sess_user, sess_token, ncs_by_user, nc_by_token>>
       /\ (get_token(token) = None /\ get_token(token)' # None)
            => \E uuid \in Users : login_twn_start(uuid, token)]_vars
\* A session bound with the token "t1", which is redeemed, and another session
\* that may present it again.
C24_Witness ==
  \E s, s2 \in Sessions :
    /\ Registered(s) /\ sess_token[s] = "t1" /\ get_token("t1") = None
    /\ s2 # s /\ ~Registered(s2) /\ sess_user[s2] = None

\* C25: a failed login changes nothing. login_twn_start for credentials the
\* store rejects returns None and mints no token; login_twn_verify with a token
\* that is not there (never minted, expired or already redeemed) returns None
\* and leaves the session's user and token, the session registry, the user
\* records, the details, the dirty set and the tokens as they were, and sends
\* no event.
C25_FailedLoginChangesNothing ==
  [][\A token \in TokensIn :
       /\ login_twn_start(None, token)
            => /\ login_twn_start_ret(None, token) = None
               /\ UNCHANGED auth_tokens
       /\ \A s \in Sessions :
            (get_token(token) = None /\ login_twn_verify(s, token))
              => /\ login_twn_verify_ret(token) = None
                 /\ UNCHANGED <<sess_user, sess_token, ncs_by_user, nc_by_token, user_by_uuid,
                                user_detail, heap, unsynced_db, user_status, auth_tokens, db>>
                 /\ sent' = NoEvents]_vars
\* A session never bound, while "t1" is redeemed by a registered session, "t2"
\* is pending, and nothing was sent by the last call.
C25_Witness ==
  \E s, s2 \in Sessions :
    /\ sess_user[s] = None /\ sess_token[s] = None
    /\ Registered(s2) /\ sess_token[s2] = "t1"
    /\ get_token("t1") = None /\ get_token("t2") # None
    /\ sent = NoEvents

\* What C26 expects of notify_call(caller, email, "c1") with the callee's
\* sessions iterated in the order `order`.
CallFailsAsListed(caller, email, order) ==
  LET res == notify_call_do(caller, email, "c1", order)
      known == \E u \in Users : EmailOf[u] = email
      callee == CHOOSE u \in Users : EmailOf[u] = email
      contacts == IF user_detail[caller] = NoDetail THEN Empty
                  ELSE heap[user_detail[caller]].contacts
  IN /\ ~known => res.err = "UserDoesNotExist"
     /\ (known /\ callee \notin DOMAIN contacts) => res.err = "ContactDoesNotExist"
     /\ (known /\ callee \in DOMAIN contacts
           /\ (\/ contacts[callee].substatus \in {"Offline", "Invisible"}
               \/ ncs_by_user[callee] = {}))
          => res.err = "ContactNotOnline"
     /\ res.err # None => res.tokens = cal_tokens /\ res.m.sent = NoEvents

\* C26 as stated: notify_call failures. Whatever the state and the caller,
\* notify_call fails with UserDoesNotExist when the address belongs to no
\* user, otherwise with ContactDoesNotExist when the callee is not among the
\* caller's contacts, otherwise with ContactNotOnline when the contact's
\* substatus as the caller sees it is Offline or Invisible or the callee has no
\* session; and a call that fails mints no token and sends no event.
C26_AnyCaller ==
  \A caller \in Users, email \in EmailsIn : \A order \in OrdersFor(email) :
    CallFailsAsListed(caller, email, order)

\* C26, amended: the same for a caller that has a user record and a detail
\* (it is logged in); for any other caller notify_call fails with ServerError,
\* whatever the address, and also mints no token and sends no event.
C26_NotifyCallFailures ==
  \A caller \in Users, email \in EmailsIn : \A order \in OrdersFor(email) :
    IF caller \in user_by_uuid /\ user_detail[caller] # NoDetail
    THEN CallFailsAsListed(caller, email, order)
    ELSE LET res == notify_call_do(caller, email, "c1", order)
         IN res.err = "ServerError" /\ res.tokens = cal_tokens /\ res.m.sent = NoEvents
\* "b" calls "a", which has a session and which "b" sees as Invisible.
C26_Witness ==
  /\ user_detail["b"] # NoDetail
  /\ ncs_by_user["a"] # {}
  /\ "a" \in DOMAIN heap[user_detail["b"]].contacts
  /\ heap[user_detail["b"]].contacts["a"].substatus = "Invisible"
  /\ \E order \in OrdersFor("a@x") : notify_call_do("b", "a@x", "c1", order).err = "ContactNotOnline"

\* C27: notify_call success. Whatever the state, when notify_call returns,
\* every session of the callee registered at the call has been sent exactly one
\* event, InvitedToChat(sb_address, chatid, token, caller), with a token that
\* was not alive before the call and whose payload names the callee; the tokens
\* of two sessions differ, no other token appears or disappears, and no other
\* session has been sent anything.
C27_NotifyCallSuccess ==
  \A caller \in Users, email \in EmailsIn : \A order \in OrdersFor(email) :
    LET res == notify_call_do(caller, email, "c1", order)
        callee == get_uuid(email)
        minted == DOMAIN res.tokens \ DOMAIN cal_tokens
    IN res.err = None =>
         /\ \A o \in Sessions \ ncs_by_user[callee] : res.m.sent[o] = <<>>
         /\ \A o \in ncs_by_user[callee] :
              \E token \in minted :
                /\ res.m.sent[o] = <<InvitedToChat(sb_address, "c1", token, caller)>>
                /\ res.tokens[token].uuid = callee
         /\ \A o1, o2 \in ncs_by_user[callee] :
              o1 # o2 => res.m.sent[o1][1].token # res.m.sent[o2][1].token
         /\ Cardinality(minted) = Cardinality(ncs_by_user[callee])
         /\ \A token \in DOMAIN cal_tokens :
              token \in DOMAIN res.tokens /\ res.tokens[token] = cal_tokens[token]
\* After a call of "b" to "a": two sessions of "a" hold an invitation each,
\* with different tokens that are alive.
C27_Witness ==
  \E o1, o2 \in ncs_by_user["a"] :
    /\ o1 # o2
    /\ Len(sent[o1]) = 1 /\ sent[o1][1].type = "InvitedToChat" /\ sent[o1][1].caller = "b"
    /\ Len(sent[o2]) = 1 /\ sent[o2][1].type = "InvitedToChat" /\ sent[o2][1].caller = "b"
    /\ sent[o1][1].token # sent[o2][1].token
    /\ {sent[o1][1].token, sent[o2][1].token} \subseteq DOMAIN cal_tokens

\* C28: the pump drains. With the pump task scheduled fairly, a user that is
\* in the dirty set eventually is out of it; an entry leaves the dirty set only
\* in a tick of the pump, which hands all the entries with their details to
\* save_batch and leaves the set empty; and the set stops being empty only by a
\* call that marks a user modified. So once such calls stop, the dirty set
\* becomes empty and stays empty.
C28_PumpDrains ==
  /\ \A u \in Users : (u \in DOMAIN unsynced_db) ~> (u \notin DOMAIN unsynced_db)
  /\ [][/\ (\E u \in DOMAIN unsynced_db : u \notin DOMAIN unsynced_db')
             => \E saved \in BOOLEAN : sync_db_impl(saved)
        /\ (\E saved \in BOOLEAN : sync_db_impl(saved)) => unsynced_db' = Empty
        /\ (unsynced_db = Empty /\ unsynced_db' # Empty)
             => \E s \in Sessions :
                  /\ Registered(s)
                  /\ \/ me_update(s, [k \in {"substatus"} |-> "Online"])
                     \/ \E c \in Uuids :
                          me_contact_add(s, c, FL) \/ me_contact_remove(s, c, FL)]_vars
\* Both users were dirty (a has added b, which put a on b's RL), and a tick
\* has taken them: nothing is dirty.
C28_Witness ==
  /\ unsynced_db = Empty
  /\ user_detail["a"] # NoDetail
  /\ user_detail["b"] # NoDetail
  /\ "b" \in DOMAIN heap[user_detail["a"]].contacts
  /\ "a" \in DOMAIN heap[user_detail["b"]].contacts
  /\ FL \in heap[user_detail["a"]].contacts["b"].lists
  /\ RL \in heap[user_detail["b"]].contacts["a"].lists


\* C29: the pump never exits. A tick whose save_batch raises is caught inside
\* _sync_db_impl: the pump task is alive in every reachable state, and after a
\* tick, failed or not, the loop is still there to perform the next one.
C29_PumpNeverExits ==
  /\ pump_alive
  /\ unsynced_db # Empty => ENABLED PumpTick
\* A tick has failed: nothing is dirty, yet the store lacks a contact that the
\* detail in memory has, and the pump is alive.
C29_Witness ==
  /\ pump_alive
  /\ unsynced_db = Empty
  /\ user_detail["a"] # NoDetail
  /\ "b" \in DOMAIN heap[user_detail["a"]].contacts
  /\ "b" \notin DOMAIN db["a"].contacts


\* C30: save_batch is idempotent and leaves no stale row. Whatever the state,
\* for the dirty users and their details: saving them twice leaves the rows as
\* saving them once does, and after either call the store has no group row and
\* no contact row that the detail does not have.
C30_SaveBatchIdempotent ==
  LET once == save_batch_do(db, unsynced_db).db
      twice == save_batch_do(once, unsynced_db).db
      Clean(store) ==
        \A u \in DOMAIN unsynced_db :
          /\ DOMAIN store[u].groups \subseteq DOMAIN heap[unsynced_db[u]].groups
          /\ DOMAIN store[u].contacts \subseteq DOMAIN heap[unsynced_db[u]].contacts
  IN /\ twice = once
     /\ Clean(once)
     /\ Clean(twice)


\* C31: OIM retrieval. Whatever the files, get_oim_single returns the stored
\* message when the file of that recipient and name exists and None, without
\* an exception, when it does not; and get_oim_batch of a recipient has every
\* message whose file is there (saved and not deleted since).
C31_OimRetrieval ==
  \A user \in Users, uuid \in OimIds :
    LET res == get_oim_single_do(oim_files, user, uuid, FALSE)
    IN /\ res.err = None
       /\ IF is_file(oim_files, user, uuid)
          THEN /\ res.ret = OIM(oim_files[user][uuid], user)
               /\ res.ret \in get_oim_batch(oim_files, user)
          ELSE res.ret = NoOIM


\* C32: the batch bound of the pump. A tick makes at most one save_batch call,
\* of at most 100 pairs; the keys it takes out of the dirty set are exactly
\* those of that batch, the first 100 in insertion order, and the keys after
\* them stay, in order; a tick on an empty dirty set makes no call.
C32_BatchBound ==
  [][SyncKeys =>
       /\ Len(save_calls') <= 1
       /\ \A i \in DOMAIN save_calls' : Len(save_calls'[i]) <= 100
       /\ unsynced_keys = <<>> => save_calls' = <<>> /\ unsynced_keys' = <<>>
       /\ unsynced_keys # <<>> =>
            /\ Len(save_calls') = 1
            /\ save_calls'[1] \o unsynced_keys' = unsynced_keys
            /\ Len(unsynced_keys) > 100 => Len(save_calls'[1]) = 100]_vars
\* A tick on more than 100 dirty users: a batch of 100, and the rest is dirty.
C32_Witness ==
  /\ Len(save_calls) = 1
  /\ Len(save_calls[1]) = 100
  /\ unsynced_keys # <<>>


\* C33: the shape of the dirty set. It has one entry per user at most; the
\* entry of a user who is logged in refers to the detail attached to that
\* user; an entry appears only in a roster or self mutation (me_update, contact
\* add or remove) and disappears only in a pump tick.
C33_DirtyShape ==
  /\ [](\A u \in DOMAIN unsynced_db :
          ncs_by_user[u] # {} => unsynced_db[u] = user_detail[u])
  /\ [][/\ (\E u \in Users : u \notin DOMAIN unsynced_db /\ u \in DOMAIN unsynced_db')
             => \E s \in Sessions :
                  /\ Registered(s)
                  /\ \/ me_update(s, [k \in {"substatus"} |-> "Online"])
                     \/ \E c \in Uuids :
                          me_contact_add(s, c, FL) \/ me_contact_remove(s, c, FL)
        /\ (\E u \in Users : u \in DOMAIN unsynced_db /\ u \notin DOMAIN unsynced_db')
             => \E saved \in BOOLEAN : sync_db_impl(saved)]_vars


\* C34: a fan-out tolerates changes of the registry. Whatever the state, for a
\* notify_call that passes its checks, whichever sessions of the callee close
\* while they are sent to: the call returns without an error, and every
\* session of the callee that does not close has been sent one InvitedToChat.
C34_FanoutTolerates ==
  \A caller \in Users, email \in EmailsIn : \A order \in OrdersFor(email) :
    \A closing \in SUBSET {order[i] : i \in DOMAIN order} :
      LET res == notify_call_live_do(caller, email, "c1", order, closing)
          Invitations(o) == {i \in DOMAIN res.m.sent[o] :
                               res.m.sent[o][i].type = "InvitedToChat"}
      IN notify_call_do(caller, email, "c1", order).err = None =>
           /\ res.err = None
           /\ \A o \in ncs_by_user[get_uuid(email)] \ closing :
                Cardinality(Invitations(o)) = 1


\* The contact rows of u once the pump has drained with no further mutation:
\* the lists of the detail in u's dirty entry, which the tick hands to
\* save_batch, or the rows of the store when u is not dirty.
to_be_persisted(u) ==
  IF u \in DOMAIN unsynced_db
  THEN [h \in DOMAIN heap[unsynced_db[u]].contacts |-> heap[unsynced_db[u]].contacts[h].lists]
  ELSE [h \in DOMAIN db[u].contacts |-> db[u].contacts[h].lists]
\* C35: no roster update of an offline contact is lost. When a user adds a
\* contact who is not logged in to FL, the roster that will be persisted for
\* the contact has the user on RL, and every list membership it had before
\* the call (from the store, or from an earlier change not yet flushed).
C35_NoLostUpdate ==
  [][\A s \in Sessions, c \in Users :
       (/\ Registered(s)
        /\ c # sess_user[s]
        /\ ncs_by_user[c] = {}
        /\ me_contact_add(s, c, FL))
       => /\ sess_user[s] \in DOMAIN to_be_persisted(c)'
          /\ RL \in to_be_persisted(c)'[sess_user[s]]
          /\ \A h \in DOMAIN to_be_persisted(c) :
               /\ h \in DOMAIN to_be_persisted(c)'
               /\ to_be_persisted(c)[h] \subseteq to_be_persisted(c)'[h]]_vars


\* C36: a login sees the pending mutations. When a user with no session logs
\* in, the contacts and lists of the detail attached to the user are those of
\* the user's latest roster: the dirty entry when the pump has not flushed it
\* yet, the rows of the store otherwise.
C36_LoginSeesPending ==
  [][\A u \in Users :
       (ncs_by_user[u] = {} /\ ncs_by_user'[u] # {})
       => /\ user_detail'[u] # NoDetail
          /\ [h \in DOMAIN heap'[user_detail'[u]].contacts |->
                heap'[user_detail'[u]].contacts[h].lists] = to_be_persisted(u)]_vars


\* C37: no dirty entry is dropped unsaved. After a tick whose save_batch
\* raised (and which is no tick whose save_batch returned), every entry that
\* was in the dirty set is still there, with its detail.
C37_NoEntryDroppedUnsaved ==
  [][(sync_db_impl(FALSE) /\ ~sync_db_impl(TRUE))
       => \A u \in DOMAIN unsynced_db :
            /\ u \in DOMAIN unsynced_db'
            /\ heap'[unsynced_db'[u]] = heap[unsynced_db[u]]]_vars


\* C38: the two indexes of the session registry agree. In every state, the
\* session found under a token is in the set of its user, and every session
\* in the set of a user has that user; and a session that on_connection_lost
\* has removed is found in no set and under no token.
C38_RegistryConsistent ==
  /\ [](/\ \A t \in DOMAIN nc_by_token :
             nc_by_token[t] \in ncs_by_user[sess_user[nc_by_token[t]]]
        /\ \A u \in Users : \A s \in ncs_by_user[u] : sess_user[s] = u)
  /\ [][\A s \in Sessions :
          (sess_user[s] # None /\ on_connection_lost(s))
          => /\ \A u \in Users : s \notin ncs_by_user'[u]
             /\ \A t \in DOMAIN nc_by_token' : nc_by_token'[t] # s]_vars


\* C39: a returning user is not announced before they announce themselves.
\* In every state, for a user who has not called me_update with a substatus
\* since coming online: the contact that any logged-in user has for them shows
\* Offline, and no PresenceNotification just sent shows them otherwise.
C39_NotAnnouncedEarly ==
  \A H \in Users \ announced :
    /\ \A o \in Users :
         (user_detail[o] # NoDetail /\ H \in DOMAIN heap[user_detail[o]].contacts)
           => heap[user_detail[o]].contacts[H].substatus = "Offline"
    /\ \A s \in Sessions : \A i \in DOMAIN sent[s] :
         (sent[s][i].type = "PresenceNotification" /\ sent[s][i].user = H)
           => sent[s][i].substatus = "Offline"


\* ---- C40: no invitation through a block ----
\* The callee of a call is out of reach when it blocks the caller at the time
\* of the call or when its own substatus is Offline or Invisible.
out_of_reach(callee, caller) ==
  \/ user_detail[callee] # NoDetail /\ is_blocking(Mem, callee, caller)
  \/ is_offlineish(user_status[callee])

\* C40 as stated: a call to a callee that blocks the caller, or whose own
\* substatus is Offline or Invisible, delivers no InvitedToChat, mints no
\* token, and fails with ContactNotOnline, whoever the caller is.
C40_AlwaysContactNotOnline ==
  \A caller \in Users, callee \in Users : \A order \in OrdersFor(EmailOf[callee]) :
    LET res == notify_call_do(caller, EmailOf[callee], "c1", order)
    IN out_of_reach(callee, caller)
         => res.err = "ContactNotOnline" /\ res.m.sent = NoEvents /\ res.tokens = cal_tokens

\* C40: a call to a callee that blocks the caller, or whose own substatus is
\* Offline or Invisible, fails, delivers no InvitedToChat to any session and
\* mints no token; the failure is ContactNotOnline when the caller is logged in
\* and has the callee among its contacts, and the failure of the earlier test
\* of notify_call otherwise.
C40_NoInvitationThroughBlock ==
  \A caller \in Users, callee \in Users : \A order \in OrdersFor(EmailOf[callee]) :
    LET res == notify_call_do(caller, EmailOf[callee], "c1", order)
        listed == /\ caller \in user_by_uuid
                  /\ user_detail[caller] # NoDetail
                  /\ callee \in DOMAIN heap[user_detail[caller]].contacts
    IN out_of_reach(callee, caller)
         => /\ res.err # None
            /\ res.m.sent = NoEvents
            /\ res.tokens = cal_tokens
            /\ res.err = (IF listed THEN "ContactNotOnline"
                          ELSE IF caller \in user_by_uuid /\ user_detail[caller] # NoDetail
                          THEN "ContactDoesNotExist" ELSE "ServerError")
\* "a" is Online with a session and blocks "b"; "b" is logged in, has "a"
\* among its contacts, and its call to "a" fails with ContactNotOnline.
C40_Witness ==
  /\ ncs_by_user["a"] # {}
  /\ user_status["a"] = "Online"
  /\ user_detail["a"] # NoDetail
  /\ user_detail["b"] # NoDetail
  /\ is_blocking(Mem, "a", "b")
  /\ "a" \in DOMAIN heap[user_detail["b"]].contacts
  /\ \E order \in OrdersFor("a@x") : notify_call_do("b", "a@x", "c1", order).err = "ContactNotOnline"

====
